---- MODULE Spec2Model ----
(***************************************************************************)
(* Model of the frozen-foods price comparison pipeline: the cross-retailer *)
(* matcher DataProcessor.find_similar_products and the table builder       *)
(* DataProcessor.create_comparison_table (src/process_data.py).            *)
(*                                                                         *)
(* A text is a sequence of one-character strings.  A DataFrame is a        *)
(* sequence of rows; a cell that holds no text is None or NaN, which are   *)
(* one-element sequences whose element is no single character, so that     *)
(* they differ from every text.                                            *)
(***************************************************************************)
EXTENDS Integers, Sequences, FiniteSets, TLC

\* ------------------------------------------------------------------------
\* Characters and texts
\* ------------------------------------------------------------------------

\* The characters of the model in code point order; "u2013" and "u2014" are
\* the en dash and the em dash.
Ascii ==
  << "\t", " ", "!", ",", "-", ".",
     "0", "1", "2", "3", "4", "5", "6", "7", "8", "9",
     "A", "B", "C", "D", "E", "F", "G", "H", "I", "J", "K", "L", "M",
     "N", "O", "P", "Q", "R", "S", "T", "U", "V", "W", "X", "Y", "Z",
     "a", "b", "c", "d", "e", "f", "g", "h", "i", "j", "k", "l", "m",
     "n", "o", "p", "q", "r", "s", "t", "u", "v", "w", "x", "y", "z",
     "u2013", "u2014" >>

Ord(c) == CHOOSE i \in 1..Len(Ascii) : Ascii[i] = c

UpperFirst == Ord("A")

LowerFirst == Ord("a")

IsUpper(c) == Ord(c) >= UpperFirst /\ Ord(c) < LowerFirst

IsLower(c) == Ord(c) >= LowerFirst /\ Ord(c) < LowerFirst + 26

IsDigit(c) == c \in {"0", "1", "2", "3", "4", "5", "6", "7", "8", "9"}

IsSpace(c) == c \in {" ", "\t"}

\* str.lower() of one character.
Lower(c) == IF IsUpper(c) THEN Ascii[Ord(c) - UpperFirst + LowerFirst] ELSE c

\* str.lower()
LowerText(s) == [i \in 1..Len(s) |-> Lower(s[i])]

\* Python None and float NaN as cell values.
None == << "None" >>

NaN == << "NaN" >>

\* Python None where the value is otherwise a tuple, a dict or an exception.
NoValue == [none |-> TRUE]

\* str(None)
StrNone == << "N", "o", "n", "e" >>

\* str(float('nan'))
StrNaN == << "n", "a", "n" >>

\* str(x) of a name cell.
Str(x) == IF x = None THEN StrNone ELSE IF x = NaN THEN StrNaN ELSE x

\* Python truthiness of a name cell: None and "" are falsy, NaN and every
\* non-empty text are truthy.
Truthy(x) == x # None /\ x # << >>

RECURSIVE SkipSpaces(_, _)
\* The first position >= i of s that holds no space (Len(s)+1 when none).
SkipSpaces(s, i) ==
  IF i <= Len(s) /\ IsSpace(s[i]) THEN SkipSpaces(s, i + 1) ELSE i

RECURSIVE SkipDigits(_, _)
\* The first position >= i of s that holds no digit.
SkipDigits(s, i) ==
  IF i <= Len(s) /\ IsDigit(s[i]) THEN SkipDigits(s, i + 1) ELSE i

RECURSIVE SkipWord(_, _)
\* The first position >= i of s that holds a space (Len(s)+1 when none).
SkipWord(s, i) ==
  IF i <= Len(s) /\ ~IsSpace(s[i]) THEN SkipWord(s, i + 1) ELSE i

RECURSIVE SplitFrom(_, _)
SplitFrom(s, i) ==
  LET b == SkipSpaces(s, i)
      e == SkipWord(s, b)
  IN  IF b > Len(s) THEN << >>
      ELSE << SubSeq(s, b, e - 1) >> \o SplitFrom(s, e)

\* str.split(): the whitespace-delimited tokens of s.
Split(s) == SplitFrom(s, 1)

RECURSIVE Join(_)
\* " ".join(tokens)
Join(toks) ==
  IF Len(toks) = 0 THEN << >>
  ELSE IF Len(toks) = 1 THEN toks[1]
  ELSE toks[1] \o << " " >> \o Join(Tail(toks))

RECURSIVE TextLess(_, _)
\* a < b for Python strings: lexicographic by code point.
TextLess(a, b) ==
  IF Len(b) = 0 THEN FALSE
  ELSE IF Len(a) = 0 THEN TRUE
  ELSE IF a[1] # b[1] THEN Ord(a[1]) < Ord(b[1])
  ELSE TextLess(Tail(a), Tail(b))

RECURSIVE InsertSorted(_, _)
InsertSorted(t, sorted) ==
  IF Len(sorted) = 0 THEN << t >>
  ELSE IF TextLess(t, sorted[1]) THEN << t >> \o sorted
  ELSE << sorted[1] >> \o InsertSorted(t, Tail(sorted))

RECURSIVE SortTokens(_)
\* sorted(tokens)
SortTokens(toks) ==
  IF Len(toks) = 0 THEN << >>
  ELSE InsertSorted(toks[Len(toks)], SortTokens(SubSeq(toks, 1, Len(toks) - 1)))

\* ------------------------------------------------------------------------
\* Name normalisation for matching (DataNormalizer.normalize_product_name)
\* ------------------------------------------------------------------------

\* The unit tokens of a size, in the order the alternation tries them.
SizeUnits == << << "m", "l" >>, << "g" >>, << "k", "g" >>, << "l" >>, << "m", "m" >> >>

\* TRUE when text u occurs in s at position i.
StartsAt(s, i, u) ==
  /\ i + Len(u) - 1 <= Len(s)
  /\ SubSeq(s, i, i + Len(u) - 1) = u

\* The position after the first unit token that occurs in s at i, else 0.
UnitEnd(s, i) ==
  LET hits == { k \in 1..Len(SizeUnits) : StartsAt(s, i, SizeUnits[k]) }
  IN  IF hits = {} THEN 0
      ELSE LET k == CHOOSE h \in hits : \A g \in hits : h <= g
           IN  i + Len(SizeUnits[k])

\* number+unit at position i of s (digits, optional fraction, optional
\* spaces, unit): the position after the match, else 0.
NumberUnitEnd(s, i) ==
  LET d == SkipDigits(s, i)
      f == IF d <= Len(s) /\ s[d] = "." /\ SkipDigits(s, d + 1) > d + 1
           THEN SkipDigits(s, d + 1) ELSE d
  IN  IF d = i THEN 0
      ELSE IF UnitEnd(s, SkipSpaces(s, f)) # 0 THEN UnitEnd(s, SkipSpaces(s, f))
      ELSE UnitEnd(s, SkipSpaces(s, d))

\* count "x" number+unit at position i of s: the position after it, else 0.
MultiPackEnd(s, i) ==
  LET d == SkipDigits(s, i)
      x == SkipSpaces(s, d)
  IN  IF d = i \/ x > Len(s) \/ s[IF x > Len(s) THEN 1 ELSE x] # "x" THEN 0
      ELSE NumberUnitEnd(s, SkipSpaces(s, x + 1))

RECURSIVE StripFrom(_, _, _)
\* s from position i on with every leftmost match of the pattern removed;
\* multi selects the multi-pack pattern, else the bare number+unit pattern.
StripFrom(s, i, multi) ==
  LET e == IF multi THEN MultiPackEnd(s, i) ELSE NumberUnitEnd(s, i)
  IN  IF i > Len(s) THEN << >>
      ELSE IF e # 0 THEN StripFrom(s, e, multi)
      ELSE << s[i] >> \o StripFrom(s, i + 1, multi)

\* Lower-case, strip multi-pack and size substrings, collapse whitespace.
normalize_product_name(name) ==
  Join(Split(StripFrom(StripFrom(LowerText(name), 1, TRUE), 1, FALSE)))

\* ------------------------------------------------------------------------
\* Similarity score (rapidfuzz fuzz.token_sort_ratio)
\* ------------------------------------------------------------------------

Max(x, y) == IF x >= y THEN x ELSE y

RECURSIVE LcsRow(_, _, _, _, _)
\* Row i of the longest-common-subsequence table of a and b, from row i-1
\* (prev) and the cells of row i filled so far (cur); cell j is at j+1.
LcsRow(a, b, i, prev, cur) ==
  LET j == Len(cur)
  IN  IF j > Len(b) THEN cur
      ELSE LcsRow(a, b, i, prev,
             Append(cur, IF a[i] = b[j] THEN prev[j] + 1
                         ELSE Max(prev[j + 1], cur[j])))

RECURSIVE LcsRows(_, _, _, _)
LcsRows(a, b, i, prev) ==
  IF i > Len(a) THEN prev
  ELSE LcsRows(a, b, i + 1, LcsRow(a, b, i, prev, << 0 >>))

\* Length of a longest common subsequence of a and b.
LcsLen(a, b) == LcsRows(a, b, 1, [j \in 1..(Len(b) + 1) |-> 0])[Len(b) + 1]

\* ratio normalized by the length of the first text alone.
ratio_of_first(a, b) ==
  IF Len(a) + Len(b) = 0 THEN [num |-> 100, den |-> 1]
  ELSE IF Len(a) = 0 THEN [num |-> 0, den |-> 1]
  ELSE [num |-> 100 * LcsLen(a, b), den |-> Len(a)]

\* fuzz.ratio: 100 * (1 - indel_distance / (len(a) + len(b))), a float, kept
\* as the exact fraction num/den; two empty texts score 100.
ratio(a, b) ==
  IF Len(a) + Len(b) = 0 THEN [num |-> 100, den |-> 1]
  ELSE [num |-> 200 * LcsLen(a, b), den |-> Len(a) + Len(b)]

\* token_sort_ratio without the sort of the tokens.
token_unsorted_ratio(a, b) == ratio(Join(Split(a)), Join(Split(b)))

\* fuzz.token_sort_ratio: ratio of the texts with their tokens sorted.
token_sort_ratio(a, b) ==
  ratio(Join(SortTokens(Split(a))), Join(SortTokens(Split(b))))

\* score >= t for an integer t.
ScoreAtLeast(score, t) == score.num >= t * score.den

\* s1 > s2
ScoreGreater(s1, s2) == s1.num * s2.den > s2.num * s1.den

\* ------------------------------------------------------------------------
\* Inputs
\* ------------------------------------------------------------------------

\* Most rows of the DataFrame handed to the matcher.
MaxRows == 3

\* similarity_threshold of DataProcessor.__init__ when none is given.
DefaultThreshold == 80

\* The thresholds the processor is constructed with.
Thresholds == {DefaultThreshold, 100}

\* Retailer names (the 'retailer' column written by load_raw_files).
RetailerNames == { << "A" >>, << "B" >>, << "C" >> }

BeefPie500g == << "B", "e", "e", "f", " ", "P", "i", "e", " ", "5", "0", "0", "g" >>

One == << "O", "n", "e" >>

\* Product names of normalized products.
ProductNames == { BeefPie500g, One }

\* A price of 10.0.
Price10 == << "1", "0", ".", "0" >>

\* product_url of the i-th input record; every listing has its own URL.
UrlOf(i) == << "u", Ascii[Ord("0") + i] >>

\* The normalized products: each field a value or None (absent).  A record
\* whose retailer is None has no retailer.
Product(r, n, p, i) ==
  [ retailer |-> r, product_name |-> n, brand |-> None,
    size_weight_volume |-> None, price |-> p, price_per_unit |-> None,
    product_url |-> UrlOf(i) ]

\* The list of n products of the given retailers, names and prices.
Products(n, rs, ns, ps) == [i \in 1..n |-> Product(rs[i], ns[i], ps[i], i)]

\* pd.DataFrame(normalized_products): one row per record.  A float column
\* (price) holds NaN where a record has None, unless no record has a value,
\* in which case the column holds None.  Text columns keep None.
DataFrame(records) ==
  LET hasPrice == \E i \in 1..Len(records) : records[i].price # None
  IN  [i \in 1..Len(records) |->
         [records[i] EXCEPT !.price = IF @ = None /\ hasPrice THEN NaN ELSE @]]

\* ------------------------------------------------------------------------
\* DataProcessor.find_similar_products
\* ------------------------------------------------------------------------

VARIABLES
  df,                    \* the normalized DataFrame handed to create_comparison_table
  similarity_threshold,  \* self.similarity_threshold
  pc,                    \* where the call is: create, match, saved, returned, raised
  retailers,             \* df['retailer'].unique()
  cursor,                \* position of the loop in base_products
  group,                 \* the group of the latest base product (NoValue before)
  matched_groups,        \* the list find_similar_products returns
  matched_base_indices,  \* index labels of the base rows that seeded a group
  comparison_df,         \* the saved table (empty while there is none)
  error,                 \* the exception that left the call (NoValue while none)
  run,                   \* 1 in the first call on this processor, 2 in the second
  first,                 \* input and outcome of the first call (NoValue during it)
  raw,                   \* the raw input handed to the normalizer or the scorer
  called,                \* the function that was applied to raw ("" before)
  result                 \* what the call returned or raised (NoValue before)

\* UniversalScraper.run and the calls below it.
VARIABLES
  spc,           \* where run is: idle, start, navigate, paginate, pages, products, finally, returned, raised
  max_pages,     \* the max_pages argument; 0 stands for None and 0, both falsy
  max_items,     \* the max_items argument; 0 stands for None and 0, both falsy
  browser,       \* none, open or closed
  close_calls,   \* number of calls of close_browser
  page,          \* number of the listing page self.page is at (0 before navigation)
  page_urls,     \* page_urls of handle_pagination
  current_page,  \* current_page of handle_pagination
  next_page,     \* the latest answer on the next page: "", none, failed or gone
  page_num,      \* page_num of the loop of scrape_category over page_urls
  product_urls,  \* the product URLs of the listing page that are still to be visited
  all_products,  \* all_products of scrape_category
  products,      \* products of run
  run_error,     \* the call whose exception run re-raises ("" while none)
  visited_at     \* the values of len(all_products) at which a product page was visited

\* run_full_pipeline, DataCollector.collect_all and collect_from_retailer.
VARIABLES
  cpc,           \* where the pipeline is: idle, collect, collected, process, done
  headless,      \* the headless argument
  retailer_pos,  \* position of the loop of collect_all in RETAILER_CONFIGS
  collected,     \* the calls of collect_from_retailer so far, in order
  results,       \* results of collect_all
  raw_files,     \* the retailers whose raw file this run has created
  processing,    \* "" before process_all is called, then running, True or False
  pipeline       \* what run_full_pipeline returned ("" before, then True or False)

scrapeVars ==
  << spc, max_pages, max_items, browser, close_calls, page, page_urls, current_page,
     next_page, page_num, product_urls, all_products, products, run_error, visited_at >>

collectVars ==
  << cpc, headless, retailer_pos, collected, results, raw_files, processing, pipeline >>

\* The state of the scraper and of the collector.
webVars == << scrapeVars, collectVars >>

vars ==
  << df, similarity_threshold, pc, retailers, cursor, group, matched_groups,
     matched_base_indices, comparison_df, error, run, first, raw, called, result,
     webVars >>

\* The state of a call of the normalizer or the scorer.
callVars == << raw, called, result >>

\* No scraper is running.
ScraperIdle ==
  /\ spc = "idle"
  /\ browser = "none"
  /\ close_calls = 0
  /\ page = 0
  /\ page_urls = << >>
  /\ current_page = 0
  /\ next_page = ""
  /\ page_num = 0
  /\ product_urls = << >>
  /\ all_products = << >>
  /\ products = << >>
  /\ run_error = ""
  /\ visited_at = {}

\* No scraper has been constructed.
NoScraping ==
  /\ ScraperIdle
  /\ max_pages = 0
  /\ max_items = 0

\* No collector has been constructed.
NoCollecting ==
  /\ cpc = "idle"
  /\ headless = TRUE
  /\ retailer_pos = 0
  /\ collected = << >>
  /\ results = << >>
  /\ raw_files = {}
  /\ processing = ""
  /\ pipeline = ""

RECURSIVE Dedup(_, _)
Dedup(s, seen) ==
  IF Len(s) = 0 THEN << >>
  ELSE IF s[1] \in seen THEN Dedup(Tail(s), seen)
  ELSE << s[1] >> \o Dedup(Tail(s), seen \cup {s[1]})

\* unique with the retailers re-sorted by name.
uniqueSorted(frame) ==
  SortTokens(Dedup([i \in 1..Len(frame) |-> frame[i].retailer], {}))

\* Series.unique(): the values in order of first appearance.
unique(frame) == Dedup([i \in 1..Len(frame) |-> frame[i].retailer], {})

\* x == y on cells: a missing value (None, NaN) equals nothing.
CellEq(x, y) == x \notin {None, NaN} /\ x = y

RECURSIVE PositionsFrom(_, _, _)
PositionsFrom(frame, r, i) ==
  IF i > Len(frame) THEN << >>
  ELSE IF CellEq(frame[i].retailer, r) THEN << i >> \o PositionsFrom(frame, r, i + 1)
  ELSE PositionsFrom(frame, r, i + 1)

\* The positions in frame of the rows of frame[frame['retailer'] == r].
PositionsOf(frame, r) == PositionsFrom(frame, r, 1)

\* frame[frame['retailer'] == r]
RowsOf(frame, r) ==
  LET at == PositionsOf(frame, r)
  IN  [k \in 1..Len(at) |-> frame[at[k]]]

\* The texts the name cells of the inputs hold, and their normalisations
\* and scores, computed once.
NameTexts == { Str(n) : n \in ProductNames \cup {None, NaN} }

NormalizedTable == [n \in NameTexts |-> normalize_product_name(n)]

\* self.normalizer.normalize_product_name(name)
normalized(name) ==
  IF name \in NameTexts THEN NormalizedTable[name] ELSE normalize_product_name(name)

MatchTexts == { NormalizedTable[n] : n \in NameTexts }

ScoreTable ==
  [a \in MatchTexts |-> [b \in MatchTexts |-> token_sort_ratio(a, b)]]

\* scorer=fuzz.token_sort_ratio
scorer(a, b) ==
  IF a \in MatchTexts /\ b \in MatchTexts THEN ScoreTable[a][b]
  ELSE token_sort_ratio(a, b)

RECURSIVE ExtractFrom(_, _, _, _)
ExtractFrom(query, choices, i, best) ==
  IF i > Len(choices) THEN best
  ELSE LET score == scorer(query, choices[i])
       IN  ExtractFrom(query, choices, i + 1,
             IF best = NoValue \/ (best # NoValue /\ ScoreGreater(score, best.score))
             THEN [choice |-> choices[i], score |-> score, index |-> i - 1]
             ELSE best)

\* process.extractOne(query, choices, scorer=fuzz.token_sort_ratio): the
\* choice of the highest score, the first one among equals; None when there
\* is no choice.
extractOne(query, choices) == ExtractFrom(query, choices, 1, NoValue)

\* [normalize_product_name(str(name)) for name in other_names]
OtherNormalized(other_products) ==
  [k \in 1..Len(other_products) |->
     normalized(Str(other_products[k].product_name))]

\* Accepted with > in place of >=.
AcceptedStrictlyAbove(best_match, threshold) ==
  best_match # NoValue
    /\ ScoreGreater(best_match.score, [num |-> threshold, den |-> 1])

\* best_match and best_match[1] >= self.similarity_threshold
Accepted(best_match, threshold) ==
  best_match # NoValue /\ ScoreAtLeast(best_match.score, threshold)

\* MatchedProduct with the position taken in the whole frame, df.iloc.
MatchedProductOfFrame(frame, other_products, match_idx) == frame[match_idx + 1]

\* other_products.iloc[match_idx]
MatchedProduct(frame, other_products, match_idx) == other_products[match_idx + 1]

\* The (price, price_per_unit, url) entries a row gives to a group.
Triple(product) ==
  [ price |-> product.price, price_per_unit |-> product.price_per_unit,
    url |-> product.product_url ]

\* The retailers other than the base whose best match is accepted.
MatchedRetailers(frame, rs, threshold, base_normalized) ==
  { r \in { rs[k] : k \in 2..Len(rs) } :
      /\ ~CellEq(r, rs[1])
      /\ Len(RowsOf(frame, r)) # 0
      /\ Accepted(extractOne(base_normalized, OtherNormalized(RowsOf(frame, r))),
                  threshold) }

\* The group of one base product: its name, brand and size, the base
\* retailer's entries, and the entries of the best match of every other
\* retailer that has an accepted one.  cols maps a retailer R to the values
\* of the keys R_price, R_price_per_unit and R_url.
BuildGroup(frame, rs, threshold, base_product) ==
  LET base_normalized == normalized(base_product.product_name)
      matched == MatchedRetailers(frame, rs, threshold, base_normalized)
  IN  [ product_name |-> base_product.product_name,
        brand |-> base_product.brand,
        size |-> base_product.size_weight_volume,
        cols |-> [r \in {rs[1]} \cup matched |->
                    IF r = rs[1] THEN Triple(base_product)
                    ELSE LET other_products == RowsOf(frame, r)
                         IN  Triple(MatchedProduct(frame, other_products,
                               extractOne(base_normalized,
                                 OtherNormalized(other_products)).index))] ]

\* sum(1 for key in group.keys() if key.endswith('_price') and group[key] is not None)
retailer_count(g) == Cardinality({ r \in DOMAIN g.cols : g.cols[r].price # None })

\* AppendGroup with the append inside the loop over the other retailers: one
\* append per other retailer that gave its entries.
AppendGroupPerRetailer(groups, g) ==
  IF retailer_count(g) >= 2
  THEN groups \o [k \in 1..(Cardinality(DOMAIN g.cols) - 1) |-> g]
  ELSE groups

\* matched_groups after the group of one base product has been built.
AppendGroup(groups, g) == IF retailer_count(g) >= 2 THEN Append(groups, g) ELSE groups

\* The base retailer's rows, base_products = df[df['retailer'] == retailers[0]].
base_products == RowsOf(df, retailers[1])

\* The index label of the base row the loop is at (labels count from 0).
BaseIdx == PositionsOf(df, retailers[1])[cursor] - 1

\* The retailer values that are no text: ', '.join(retailers) raises on the
\* first of them.
NotStr(rs) == { k \in 1..Len(rs) : rs[k] \in {None, NaN} }

\* The permutations of rows that are ordered by product_name.  sort_values
\* uses the default kind, which keeps no order among equal names.
sort_values(rows) ==
  LET n == Len(rows)
      perms == { p \in [1..n -> 1..n] : \A i, j \in 1..n : i # j => p[i] # p[j] }
  IN  { [i \in 1..n |-> rows[p[i]]] : p \in
          { q \in perms : \A i \in 1..(n - 1) :
              ~TextLess(rows[q[i + 1]].product_name, rows[q[i]].product_name) } }

\* The state before create_comparison_table is called on a DataFrame of at
\* most MaxRows normalized products whose retailer cells are drawn from
\* retailerCells.  Nothing but the retailer of a record without retailer is
\* read, so such a record has one fixed name and price.
InitWith(retailerCells) ==
  /\ \E n \in 0..MaxRows :
       \E rs \in [1..n -> retailerCells],
          ns \in [1..n -> ProductNames \cup {None}],
          ps \in [1..n -> {Price10, None}] :
         /\ \A i \in 1..n : rs[i] = None => ns[i] = One /\ ps[i] = Price10
         /\ df = DataFrame(Products(n, rs, ns, ps))
  /\ similarity_threshold \in Thresholds
  /\ pc = "create"
  /\ retailers = << >>
  /\ cursor = 0
  /\ group = NoValue
  /\ matched_groups = << >>
  /\ matched_base_indices = {}
  /\ comparison_df = << >>
  /\ error = NoValue
  /\ run = 1
  /\ first = NoValue
  /\ raw = NoValue
  /\ called = ""
  /\ result = NoValue
  /\ NoScraping
  /\ NoCollecting

Init == InitWith(RetailerNames \cup {None})

\* create_comparison_table on an empty DataFrame: returns, no table.
CreateEmpty ==
  /\ pc = "create"
  /\ df = << >>
  /\ pc' = "returned"
  /\ UNCHANGED << df, similarity_threshold, retailers, cursor, group,
                  matched_groups, matched_base_indices, comparison_df, error,
                  run, first >>
  /\ UNCHANGED << callVars, webVars >>

\* find_similar_products, a retailer value that is no text: the join of the
\* log line raises TypeError("sequence item k: expected str instance ...")
\* and the error leaves create_comparison_table.
FindRaise ==
  /\ pc = "create"
  /\ df # << >>
  /\ NotStr(unique(df)) # {}
  /\ error' = [ type |-> "TypeError",
                item |-> (CHOOSE k \in NotStr(unique(df)) :
                            \A j \in NotStr(unique(df)) : k <= j) - 1 ]
  /\ pc' = "raised"
  /\ UNCHANGED << df, similarity_threshold, retailers, cursor, group,
                  matched_groups, matched_base_indices, comparison_df, run, first >>
  /\ UNCHANGED << callVars, webVars >>

\* FindStart with the retailers taken from a set, whose iteration order is
\* not fixed.
FindStartUnordered ==
  /\ pc = "create"
  /\ df # << >>
  /\ NotStr(unique(df)) = {}
  /\ \E rs \in [1..Len(unique(df)) -> { unique(df)[k] : k \in 1..Len(unique(df)) }] :
       /\ \A i, j \in 1..Len(rs) : i # j => rs[i] # rs[j]
       /\ retailers' = rs
  /\ cursor' = 1
  /\ matched_groups' = << >>
  /\ matched_base_indices' = {}
  /\ pc' = "match"
  /\ UNCHANGED << df, similarity_threshold, group, comparison_df, error, run, first >>
  /\ UNCHANGED << callVars, webVars >>

\* find_similar_products up to the loop: the retailers in order of first
\* appearance, the first one the base.
FindStart ==
  /\ pc = "create"
  /\ df # << >>
  /\ NotStr(unique(df)) = {}
  /\ retailers' = unique(df)
  /\ cursor' = 1
  /\ matched_groups' = << >>
  /\ matched_base_indices' = {}
  /\ pc' = "match"
  /\ UNCHANGED << df, similarity_threshold, group, comparison_df, error, run, first >>
  /\ UNCHANGED << callVars, webVars >>

\* One pass of the loop that ends in continue: the row seeded a group
\* already, or its product_name is falsy.
SkipBase ==
  /\ pc = "match"
  /\ cursor <= Len(base_products)
  /\ \/ BaseIdx \in matched_base_indices
     \/ ~Truthy(base_products[cursor].product_name)
  /\ cursor' = cursor + 1
  /\ UNCHANGED << df, similarity_threshold, pc, retailers, group, matched_groups,
                  matched_base_indices, comparison_df, error, run, first >>
  /\ UNCHANGED << callVars, webVars >>

\* One full pass of the loop: the group of the base row is built from the
\* best match of every other retailer and kept when retailer_count >= 2.
MatchBase ==
  /\ pc = "match"
  /\ cursor <= Len(base_products)
  /\ BaseIdx \notin matched_base_indices
  /\ Truthy(base_products[cursor].product_name)
  /\ group' = BuildGroup(df, retailers, similarity_threshold, base_products[cursor])
  /\ matched_groups' = AppendGroup(matched_groups, group')
  /\ matched_base_indices' =
       IF retailer_count(group') >= 2
       THEN matched_base_indices \cup {BaseIdx} ELSE matched_base_indices
  /\ cursor' = cursor + 1
  /\ UNCHANGED << df, similarity_threshold, pc, retailers, comparison_df, error,
                  run, first >>
  /\ UNCHANGED << callVars, webVars >>

\* The loop is over and no group was kept: create_comparison_table returns
\* without a table.
ReturnNoGroups ==
  /\ pc = "match"
  /\ cursor > Len(base_products)
  /\ matched_groups = << >>
  /\ pc' = "returned"
  /\ UNCHANGED << df, similarity_threshold, retailers, cursor, group,
                  matched_groups, matched_base_indices, comparison_df, error,
                  run, first >>
  /\ UNCHANGED << callVars, webVars >>

\* The loop is over with groups: one row per group, sorted by product_name,
\* saved as the comparison table.
SaveTable ==
  /\ pc = "match"
  /\ cursor > Len(base_products)
  /\ matched_groups # << >>
  /\ comparison_df' \in sort_values(matched_groups)
  /\ pc' = "saved"
  /\ UNCHANGED << df, similarity_threshold, retailers, cursor, group,
                  matched_groups, matched_base_indices, error, run, first >>
  /\ UNCHANGED << callVars, webVars >>

Next ==
  \/ CreateEmpty
  \/ FindRaise
  \/ FindStart
  \/ SkipBase
  \/ MatchBase
  \/ ReturnNoGroups
  \/ SaveTable

Spec == Init /\ [][Next]_vars

\* ------------------------------------------------------------------------
\* A second call on a reordered input
\* ------------------------------------------------------------------------

\* frame with rows i and i+1 exchanged.
SwapRows(frame, i) ==
  [k \in 1..Len(frame) |->
     IF k = i THEN frame[i + 1] ELSE IF k = i + 1 THEN frame[i] ELSE frame[k]]

\* frame itself and the exchanges of two neighbouring rows that keep the
\* order in which the retailers first appear.
Reorderings(frame) ==
  {frame} \cup { f \in { SwapRows(frame, i) : i \in 1..(Len(frame) - 1) } :
                   unique(f) = unique(frame) }

\* The first call has ended without an error: create_comparison_table is
\* called again, with the same threshold, on a reordering of its input.
Rerun ==
  /\ run = 1
  /\ pc \in {"saved", "returned"}
  /\ df # << >>
  /\ first' = [ df |-> df, retailers |-> retailers, pc |-> pc,
                matched_groups |-> matched_groups ]
  /\ df' \in Reorderings(df)
  /\ run' = 2
  /\ pc' = "create"
  /\ retailers' = << >>
  /\ cursor' = 0
  /\ group' = NoValue
  /\ matched_groups' = << >>
  /\ matched_base_indices' = {}
  /\ comparison_df' = << >>
  /\ UNCHANGED << similarity_threshold, error >>
  /\ UNCHANGED << callVars, webVars >>

\* The retailers of the two-call runs.
RerunRetailers == { << "A" >>, << "B" >> }

InitRerun == InitWith(RerunRetailers)

\* Every record of these runs has a retailer, so nothing raises.
NextRerun ==
  \/ CreateEmpty
  \/ FindStart
  \/ SkipBase
  \/ MatchBase
  \/ ReturnNoGroups
  \/ SaveTable
  \/ Rerun

SpecRerun == InitRerun /\ [][NextRerun]_vars

\* ------------------------------------------------------------------------
\* Properties
\* ------------------------------------------------------------------------

Range(s) == { s[i] : i \in 1..Len(s) }

\* The base retailer once find_similar_products has chosen it.
Started == retailers # << >>

\* The retailers other than the base.
OtherRetailers == { retailers[k] : k \in 2..Len(retailers) }

\* The retailers other than the base that gave their entries to group g.
Attached(g) == DOMAIN g.cols \ {retailers[1]}

\* The row of df with the given product_url.
RowOfUrl(u) == df[CHOOSE i \in 1..Len(df) : df[i].product_url = u]

\* The normalized name of the base product that seeded group g.
SeedText(g) == normalized(g.product_name)

\* The text a row is scored by.
MatchText(row) == normalized(Str(row.product_name))

Populated(price) == price \notin {None, NaN}

\* Every product of the input has a name.
AllNamed == \A i \in 1..Len(df) : Truthy(df[i].product_name)

\* Every product of the input has a price.
AllPriced == \A i \in 1..Len(df) : Populated(df[i].price)

\* C1: a product of a non-reference catalog is claimed by at most one
\* reference product: no two groups of the matcher carry the entries of the
\* same product of another catalog.  Stated for the inputs whose products
\* all have a name and a price.
AtMostOneClaim ==
  (Started /\ AllNamed /\ AllPriced) =>
    \A i, j \in 1..Len(matched_groups) :
      i < j =>
        \A r \in Attached(matched_groups[i]) \cap Attached(matched_groups[j]) :
          matched_groups[i].cols[r].url # matched_groups[j].cols[r].url

\* C2: the group built for a reference product is emitted, and is a row of the
\* final table, if and only if at least two distinct catalogs gave their
\* entries to it.  Stated for the inputs whose products all have a name.
EmittedIffTwoCatalogs ==
  (Started /\ group # NoValue /\ AllNamed) =>
    /\ (Cardinality(DOMAIN group.cols) >= 2) <=> (group \in Range(matched_groups))
    /\ pc = "saved" =>
         (Cardinality(DOMAIN group.cols) >= 2) <=> (group \in Range(comparison_df))

\* C3: every row of the saved comparison table has at least two populated
\* price entries, also when the price of a product is absent.  Stated for
\* the inputs whose products all have a name.
TwoPopulatedPrices ==
  (pc = "saved" /\ AllNamed) =>
    \A k \in 1..Len(comparison_df) :
      Cardinality({ r \in DOMAIN comparison_df[k].cols :
                      Populated(comparison_df[k].cols[r].price) }) >= 2

Unconsumed(r, k) ==
  SelectSeq(RowsOf(df, r),
            LAMBDA row : \A i \in 1..(k - 1) :
              r \in Attached(matched_groups[i])
                => matched_groups[i].cols[r].url # row.product_url)

\* C5: the entries attached from a catalog are those of the first product of
\* the highest score among the catalog's still unconsumed products.  Stated
\* for the inputs whose products all have a name and a price.
BestUnconsumedAttached ==
  (Started /\ AllNamed /\ AllPriced) =>
    \A k \in 1..Len(matched_groups) :
      \A r \in Attached(matched_groups[k]) :
        LET rows == Unconsumed(r, k)
            seed == SeedText(matched_groups[k])
        IN  \E q \in 1..Len(rows) :
              /\ rows[q].product_url = matched_groups[k].cols[r].url
              /\ \A j \in 1..Len(rows) :
                   ~ScoreGreater(scorer(seed, MatchText(rows[j])),
                                 scorer(seed, MatchText(rows[q])))
              /\ \A j \in 1..(q - 1) :
                   ScoreGreater(scorer(seed, MatchText(rows[q])),
                                scorer(seed, MatchText(rows[j])))

\* The second call has ended.
SecondCallDone == run = 2 /\ pc \in {"saved", "returned"}

\* Every catalog holds the same products in the same order in both inputs.
SameCatalogs(f, g) == \A r \in RetailerNames : RowsOf(f, r) = RowsOf(g, r)

\* C6, as claimed: with the order of the catalogs kept, a reordering of the
\* products of the input changes neither the reference catalog nor the
\* contents of the groups.  Stated for the inputs whose products all have a
\* name and a price.
GroupsKeptByReordering ==
  (SecondCallDone /\ AllNamed /\ AllPriced) =>
    /\ retailers[1] = first.retailers[1]
    /\ Range(matched_groups) = Range(first.matched_groups)

\* C6, amended: the reference catalog is the catalog of the first row, and a
\* reordering that keeps the order in which the catalogs first appear and
\* the order of the products inside every catalog changes neither the
\* reference catalog nor the list of groups.
GroupsKeptByInterleaving ==
  /\ Started => retailers[1] = df[1].retailer
  /\ (SecondCallDone /\ SameCatalogs(df, first.df)) =>
       /\ retailers = first.retailers
       /\ matched_groups = first.matched_groups

\* C6 witness: the second call ran on a different interleaving of the same
\* catalogs and emitted a group.
InterleavingRerun ==
  /\ SecondCallDone
  /\ df # first.df
  /\ SameCatalogs(df, first.df)
  /\ matched_groups # << >>

\* C7: a product without product_name takes no part in matching: it seeds no
\* group, its entries are in no group, and the call does not fail over it.
NamelessTakesNoPart ==
  /\ (Started /\ group # NoValue) =>
       \A r \in DOMAIN group.cols :
         Truthy(RowOfUrl(group.cols[r].url).product_name)
  /\ pc = "raised" => \E i \in 1..Len(df) : df[i].retailer = None

\* C8: no two emitted groups are seeded by the same reference product, so
\* there are at most as many groups, and rows, as reference products.
OneGroupPerReferenceProduct ==
  Started =>
    /\ \A i, j \in 1..Len(matched_groups) :
         i # j => matched_groups[i].cols[retailers[1]].url
                    # matched_groups[j].cols[retailers[1]].url
    /\ Len(matched_groups) <= Len(base_products)
    /\ Len(comparison_df) <= Len(base_products)

\* C8 witness: two reference products have each seeded an emitted group.
TwoGroupsEmitted == Started /\ Len(matched_groups) = 2 /\ pc = "saved"

MissingRetailerReportedWithIndex ==
  (pc # "create" /\ \E i \in 1..Len(df) : df[i].retailer = None) =>
    /\ pc = "raised"
    /\ error # NoValue
    /\ error.item \in { i - 1 : i \in { j \in 1..Len(df) : df[j].retailer = None } }
    /\ comparison_df = << >>

\* ------------------------------------------------------------------------
\* Python values of the raw records (src/utils/normalizer.py)
\* ------------------------------------------------------------------------

\* A value is a record of its type and its text: the characters of a str,
\* the repr of an int or a float, nothing for None.  An exception that left
\* a call is the record of its class.
PyNone == [type |-> "NoneType", value |-> << >>]

PyStr(s) == [type |-> "str", value |-> s]

PyInt(digits) == [type |-> "int", value |-> digits]

PyFloat(repr) == [type |-> "float", value |-> repr]

Raise(exception) == [type |-> exception, value |-> << >>]

Exceptions == {"TypeError", "AttributeError"}

Raised(x) == x.type \in Exceptions

IsNumber(x) == x.type \in {"int", "float"}

\* 'not x' is False: None, "", 0 and 0.0 are falsy, everything else
\* (float('nan') too) is truthy.
PyTruthy(x) ==
  CASE x.type = "NoneType" -> FALSE
    [] x.type = "str" -> x.value # << >>
    [] OTHER -> \E i \in 1..Len(x.value) : x.value[i] \notin {"0", ".", "-"}

\* str(x)
PyStrOf(x) == IF x.type = "NoneType" THEN StrNone ELSE x.value

RECURSIVE CollapseFrom(_, _)
CollapseFrom(s, i) ==
  IF i > Len(s) THEN << >>
  ELSE IF IsSpace(s[i]) THEN << " " >> \o CollapseFrom(s, SkipSpaces(s, i))
  ELSE << s[i] >> \o CollapseFrom(s, i + 1)

\* re.sub(r'\s+', ' ', s)
CollapseSpaces(s) == CollapseFrom(s, 1)

RECURSIVE RStrip(_)
RStrip(s) ==
  IF Len(s) > 0 /\ IsSpace(s[Len(s)]) THEN RStrip(SubSeq(s, 1, Len(s) - 1)) ELSE s

\* s.strip()
Strip(s) == RStrip(SubSeq(s, SkipSpaces(s, 1), Len(s)))

\* The characters the class [\w\s.,\-–—()&/] holds.
KeptChar(c) ==
  \/ IsDigit(c) \/ IsUpper(c) \/ IsLower(c) \/ IsSpace(c)
  \/ c \in {".", ",", "-", "u2013", "u2014"}

\* s.replace(en dash, '-').replace(em dash, '-')
NormalizeDashes(s) ==
  [i \in 1..Len(s) |-> IF s[i] \in {"u2013", "u2014"} THEN "-" ELSE s[i]]

\* ------------------------------------------------------------------------
\* DataNormalizer.clean_text
\* ------------------------------------------------------------------------

\* A falsy value gives None; re.sub on a value that is no str raises
\* TypeError; else whitespace runs become one space, the ends are stripped,
\* the characters outside the kept class are removed, dashes become '-'.
clean_text(text) ==
  IF ~PyTruthy(text) THEN PyNone
  ELSE IF text.type # "str" THEN Raise("TypeError")
  ELSE LET kept == NormalizeDashes(
                     SelectSeq(Strip(CollapseSpaces(text.value)), KeptChar))
       IN  IF kept # << >> THEN PyStr(kept) ELSE PyNone

\* ------------------------------------------------------------------------
\* DataNormalizer.clean_price
\* ------------------------------------------------------------------------

\* TRUE when \d+[.,]\d{2} matches s at position i.
PriceAt(s, i) ==
  LET d == SkipDigits(s, i)
  IN  /\ d > i
      /\ d + 2 <= Len(s)
      /\ s[d] \in {".", ","}
      /\ IsDigit(s[d + 1])
      /\ IsDigit(s[d + 2])

RECURSIVE LStripZeros(_)
LStripZeros(digits) ==
  IF Len(digits) > 1 /\ digits[1] = "0" THEN LStripZeros(Tail(digits)) ELSE digits

RECURSIVE RStripZeros(_)
RStripZeros(digits) ==
  IF Len(digits) > 1 /\ digits[Len(digits)] = "0"
  THEN RStripZeros(SubSeq(digits, 1, Len(digits) - 1)) ELSE digits

\* float(t) of a text 'digits.digits', as the float's repr: no leading zero
\* but one, no trailing zero but one ('12.50' is 12.5, '45.00' is 45.0).
FloatOf(whole, fraction) ==
  PyFloat(LStripZeros(whole) \o << "." >> \o RStripZeros(fraction))

\* A falsy value gives None; else the leftmost match of \d+[.,]\d{2} in
\* str(price), with ',' replaced by '.', as a float; None without a match.
clean_price(price) ==
  IF ~PyTruthy(price) THEN PyNone
  ELSE LET s == PyStrOf(price)
           starts == { i \in 1..Len(s) : PriceAt(s, i) }
       IN  IF starts = {} THEN PyNone
           ELSE LET i == CHOOSE j \in starts : \A k \in starts : j <= k
                    d == SkipDigits(s, i)
                IN  FloatOf(SubSeq(s, i, d - 1), SubSeq(s, d + 1, d + 2))

\* ------------------------------------------------------------------------
\* DataNormalizer.validate_barcode
\* ------------------------------------------------------------------------

\* The lengths a barcode is kept at.
BarcodeLengths == {8, 12, 13, 14}

\* validate_barcode without the removal of the non-digits.
validate_barcode_unstripped(barcode) ==
  IF ~PyTruthy(barcode) THEN PyNone
  ELSE IF Len(PyStrOf(barcode)) \in BarcodeLengths THEN PyStr(PyStrOf(barcode))
  ELSE PyNone

\* A falsy value gives None; else the digits of str(barcode) when there are
\* 8, 12, 13 or 14 of them, None otherwise.
validate_barcode(barcode) ==
  IF ~PyTruthy(barcode) THEN PyNone
  ELSE LET digits == SelectSeq(PyStrOf(barcode), IsDigit)
       IN  IF Len(digits) \in BarcodeLengths THEN PyStr(digits) ELSE PyNone

\* ------------------------------------------------------------------------
\* DataNormalizer.parse_size_weight_volume
\* ------------------------------------------------------------------------

RECURSIVE SkipLower(_, _)
\* The first position >= i of s that holds no letter of a-z.
SkipLower(s, i) ==
  IF i <= Len(s) /\ IsLower(s[i]) THEN SkipLower(s, i + 1) ELSE i

\* The position after the number that starts at i: digits and, when a '.'
\* or ',' and digits follow, the fraction.
NumberEnd(s, i) ==
  LET d == SkipDigits(s, i)
  IN  IF d <= Len(s) /\ s[d] \in {".", ","} /\ SkipDigits(s, d + 1) > d + 1
      THEN SkipDigits(s, d + 1) ELSE d

\* TRUE when (\d+(?:[.,]\d+)?)\s*([a-z]+) matches s at position i.
SizeAt(s, i) ==
  /\ i <= Len(s)
  /\ IsDigit(s[i])
  /\ LET u == SkipSpaces(s, NumberEnd(s, i))
     IN  u <= Len(s) /\ IsLower(s[u])

\* A dict of parse_size_weight_volume.
SizeDict(value, unit, type) ==
  [ type |-> "dict", value |-> [ value |-> value, unit |-> unit, type |-> type ] ]

\* The attributes of class DataNormalizer other than its methods.  Lines
\* 102 and 104 read DataNormalizer.WEIGHT_UNITS and .VOLUME_UNITS, which
\* the class does not define.
ClassAttributes == {}

\* The value of key 'type' for a unit (lines 102-107).
UnitType(unit) ==
  IF unit \in { << "k", "g" >>, << "g" >>, << "m", "g" >> } THEN << "w", "e", "i", "g", "h", "t" >>
  ELSE IF unit \in { << "l" >>, << "m", "l" >> } THEN << "v", "o", "l", "u", "m", "e" >>
  ELSE << "u", "n", "k", "n", "o", "w", "n" >>

\* A falsy value gives the dict of three None; a value that is no str has
\* no lower() (AttributeError); else the leftmost number+unit of the
\* lower-cased, stripped text is looked for, and with a match the read of
\* DataNormalizer.WEIGHT_UNITS raises AttributeError.
parse_size_weight_volume(text) ==
  IF ~PyTruthy(text) THEN SizeDict(PyNone, PyNone, PyNone)
  ELSE IF text.type # "str" THEN Raise("AttributeError")
  ELSE LET s == Strip(LowerText(text.value))
           starts == { i \in 1..Len(s) : SizeAt(s, i) }
       IN  IF starts = {} THEN SizeDict(PyNone, PyNone, PyNone)
           ELSE IF "WEIGHT_UNITS" \notin ClassAttributes THEN Raise("AttributeError")
           ELSE LET i == CHOOSE j \in starts : \A k \in starts : j <= k
                    e == NumberEnd(s, i)
                    u == SkipSpaces(s, e)
                    unit == SubSeq(s, u, SkipLower(s, u) - 1)
                IN  SizeDict(
                      PyStr([k \in 1..(e - i) |->
                               IF s[i + k - 1] = "," THEN "." ELSE s[i + k - 1]]),
                      PyStr(unit), PyStr(UnitType(unit)))

\* ------------------------------------------------------------------------
\* DataNormalizer.normalize_brand
\* ------------------------------------------------------------------------

IsLetter(c) == IsUpper(c) \/ IsLower(c)

\* str.upper() of one character.
Upper(c) == IF IsLower(c) THEN Ascii[Ord(c) - LowerFirst + UpperFirst] ELSE c

\* word.capitalize()
Capitalize(word) ==
  [i \in 1..Len(word) |-> IF i = 1 THEN Upper(word[i]) ELSE Lower(word[i])]

\* A falsy value gives None; else clean_text, whose error propagates and
\* whose None has no split() (AttributeError); else the words capitalized
\* and joined by one space.
normalize_brand(brand) ==
  IF ~PyTruthy(brand) THEN PyNone
  ELSE LET cleaned == clean_text(brand)
       IN  IF Raised(cleaned) THEN cleaned
           ELSE IF cleaned = PyNone THEN Raise("AttributeError")
           ELSE LET words == Split(cleaned.value)
                IN  PyStr(Join([k \in 1..Len(words) |-> Capitalize(words[k])]))

\* ------------------------------------------------------------------------
\* DataNormalizer.normalize_product_data and DataProcessor.normalize_data
\* ------------------------------------------------------------------------

\* A product dict: the keys it has and the value of each.
PyDict(items) == [type |-> "dict", value |-> items]

\* text_fields
text_fields == << "product_name", "description", "brand", "category", "department" >>

RECURSIVE CleanTextFields(_, _)
\* The loop over text_fields from its k-th field on; an exception ends it.
CleanTextFields(dict, k) ==
  IF k > Len(text_fields) \/ Raised(dict) THEN dict
  ELSE IF text_fields[k] \notin DOMAIN dict.value
       THEN CleanTextFields(dict, k + 1)
  ELSE LET v == clean_text(dict.value[text_fields[k]])
       IN  IF Raised(v) THEN v
           ELSE CleanTextFields(
                  PyDict([dict.value EXCEPT ![text_fields[k]] = v]), k + 1)

\* if field in normalized: normalized[field] = v, where v may be the
\* exception that left the normalizer of the field.
SetField(dict, field, v) ==
  IF Raised(dict) \/ field \notin DOMAIN dict.value THEN dict
  ELSE IF Raised(v) THEN v
  ELSE PyDict([dict.value EXCEPT ![field] = v])

\* The value of a key the dict has, None for the others.
Get(dict, field) ==
  IF ~Raised(dict) /\ field \in DOMAIN dict.value
  THEN dict.value[field] ELSE PyNone

\* Lines 187-189: a truthy size_weight_volume is parsed and unit_of_measure
\* is set to the unit of the parse, whether the product had the key or not.
SetUnitOfMeasure(dict) ==
  IF Raised(dict) THEN dict
  ELSE IF ~PyTruthy(Get(dict, "size_weight_volume")) THEN dict
  ELSE LET parsed == parse_size_weight_volume(Get(dict, "size_weight_volume"))
       IN  IF Raised(parsed) THEN parsed
           ELSE PyDict([k \in DOMAIN dict.value \cup {"unit_of_measure"} |->
                          IF k = "unit_of_measure" THEN parsed.value.unit
                          ELSE dict.value[k]])

\* The copy of the product with its text fields, price, brand and barcode
\* dict and unit_of_measure set, or the first exception of a field
\* normalizer.
normalize_product_data(product) ==
  LET texts == CleanTextFields(product, 1)
      priced == SetField(texts, "price", clean_price(Get(texts, "price")))
      branded == SetField(priced, "brand", normalize_brand(Get(priced, "brand")))
      barcoded == SetField(branded, "barcode", validate_barcode(Get(branded, "barcode")))
  IN  SetUnitOfMeasure(barcoded)

\* self.normalizer.normalize_product(product.to_dict()): the normalizer of
\* one record.
normalize_product(product) == normalize_product_data(product)

\* The dict products of the records that did not raise, in the order of
\* the records: the except branch logs a warning and goes on to the next
\* record.
normalize_data(frame) ==
  SelectSeq([i \in 1..Len(frame) |-> normalize_product(frame[i])],
            LAMBDA normalized_product : ~Raised(normalized_product))

\* ------------------------------------------------------------------------
\* Calls of the field normalizers on raw values
\* ------------------------------------------------------------------------

\* The variables of the matcher.
matchVars ==
  << df, similarity_threshold, pc, retailers, cursor, group, matched_groups,
     matched_base_indices, comparison_df, error, run >>

\* No DataFrame has been handed to the matcher.
NoMatching ==
  /\ df = << >>
  /\ similarity_threshold = DefaultThreshold
  /\ pc = "normalize"
  /\ retailers = << >>
  /\ cursor = 0
  /\ group = NoValue
  /\ matched_groups = << >>
  /\ matched_base_indices = {}
  /\ comparison_df = << >>
  /\ error = NoValue
  /\ run = 1

\* Longest raw text of the exhaustive part of the inputs.
MaxTextLen == 4

\* Most digits of a raw barcode.
MaxBarcodeDigits == 15

\* The characters of the exhaustive texts: whitespace, a removed character,
\* a separator, digits and a unit letter.
TextChars == {" ", "!", ",", "0", "1", "g"}

\* All texts of at most MaxTextLen characters of TextChars.
ShortTexts == UNION { [1..n -> TextChars] : n \in 0..MaxTextLen }

\* A 13-digit barcode.
Ean13 == << "6", "0", "0", "1", "2", "3", "4", "5", "6", "7", "8", "9", "0" >>

\* An alphanumeric product code.
Abc123 == << "A", "B", "C", "1", "2", "3" >>

\* Raw texts as the scrapers write them.
ExampleTexts ==
  { Ean13, << "R", " ", "4", "5", ".", "9", "9" >>, << "1", "2", ",", "5", "0" >>, << "4", "5", ".", "0", "0" >>, << "x", " ", "0", "0", "7", ".", "1", "0", " ", "o", "r", " ", "8", ".", "9", "9" >>,
    << "1", ".", "5", "k", "g" >>, << "5", "0", "0", "m", "l" >>, << "1", ",", "5", " ", "K", "G" >>, << "l", "a", "r", "g", "e" >>,
    Abc123, << "N", "o", "n", "e" >>, << "a", "\t", " ", "b", "u2013", "!", "c", " " >>, << "m", "c", "C", "A", "I", "N", " ", " ", "f", "o", "o", "d", "s" >> }

\* The digits 1, 2, ..., 9, 0, 1, ... of a barcode of n digits.
BarcodeDigits(n) == [i \in 1..n |-> Ascii[Ord("0") + (i % 10)]]

\* Barcodes of every length up to MaxBarcodeDigits, bare and with a dash
\* after the fourth digit.
BarcodeTexts ==
  { BarcodeDigits(n) : n \in 0..MaxBarcodeDigits }
    \cup { SubSeq(BarcodeDigits(n), 1, 4) \o << "-" >> \o SubSeq(BarcodeDigits(n), 5, n) :
             n \in 4..MaxBarcodeDigits }

\* Raw numbers: cells that the spreadsheet reader typed as int or float.
RawNumbers ==
  { PyInt(<< "0" >>), PyInt(<< "5" >>), PyFloat(<< "1", "2", ".", "5" >>), PyFloat(<< "4", "5", ".", "0" >>),
    PyFloat(<< "1", "2", ".", "9", "9" >>), PyFloat(<< "1", "2", ".", "3", "4", "5" >>), PyFloat(<< "0", ".", "0" >>), PyFloat(StrNaN) }
    \cup { PyInt(BarcodeDigits(n)) : n \in 1..MaxBarcodeDigits }

\* The raw values a field of a record can hold.
RawValues ==
  {PyNone} \cup { PyStr(s) : s \in ShortTexts \cup ExampleTexts \cup BarcodeTexts }
    \cup RawNumbers

InitFields ==
  /\ NoMatching
  /\ NoScraping
  /\ NoCollecting
  /\ first = NoValue
  /\ raw \in RawValues
  /\ called = ""
  /\ result = NoValue

CleanText ==
  /\ called = ""
  /\ called' = "clean_text"
  /\ result' = clean_text(raw)
  /\ UNCHANGED << matchVars, webVars, first, raw >>

CleanPrice ==
  /\ called = ""
  /\ called' = "clean_price"
  /\ result' = clean_price(raw)
  /\ UNCHANGED << matchVars, webVars, first, raw >>

\* clean_price(str(price)) of a price that clean_price returned.
CleanPriceOfStr ==
  /\ called = "clean_price"
  /\ result.type = "float"
  /\ first' = [ raw |-> raw, result |-> result ]
  /\ raw' = PyStr(PyStrOf(result))
  /\ called' = "clean_price(str)"
  /\ result' = clean_price(PyStr(PyStrOf(result)))
  /\ UNCHANGED << matchVars, webVars >>

ParseSizeWeightVolume ==
  /\ called = ""
  /\ called' = "parse_size_weight_volume"
  /\ result' = parse_size_weight_volume(raw)
  /\ UNCHANGED << matchVars, webVars, first, raw >>

NormalizeBrand ==
  /\ called = ""
  /\ called' = "normalize_brand"
  /\ result' = normalize_brand(raw)
  /\ UNCHANGED << matchVars, webVars, first, raw >>

ValidateBarcode ==
  /\ called = ""
  /\ called' = "validate_barcode"
  /\ result' = validate_barcode(raw)
  /\ UNCHANGED << matchVars, webVars, first, raw >>

NextFields ==
  \/ CleanText
  \/ CleanPrice
  \/ CleanPriceOfStr
  \/ ParseSizeWeightVolume
  \/ NormalizeBrand
  \/ ValidateBarcode

SpecFields == InitFields /\ [][NextFields]_vars

\* ------------------------------------------------------------------------
\* Calls of normalize_product_data and normalize_data on raw records
\* ------------------------------------------------------------------------

\* Most records of a raw DataFrame handed to normalize_data.
MaxRecords == 2

\* The values of each field of a raw product: well-formed and malformed
\* texts, None, and the numbers the spreadsheet reader yields (NaN for an
\* empty cell).
RawNames == { PyStr(<< " ", "B", "e", "e", "f", " ", " ", "P", "i", "e", " " >>), PyNone, PyFloat(StrNaN) }

RawBrands == { PyStr(<< "m", "c", "C", "A", "I", "N", " ", " ", "f", "o", "o", "d", "s" >>), PyStr(<< "!" >>), PyNone }

RawPrices == { PyStr(<< "R", " ", "4", "5", ".", "9", "9" >>), PyStr(<< "f", "r", "e", "e" >>), PyFloat(<< "1", "2", ".", "5" >>), PyNone }

RawBarcodes == { PyStr(Ean13), PyStr(Abc123), PyNone }

RawSizes == { PyStr(<< "5", "0", "0", "m", "l" >>), PyStr(<< "l", "a", "r", "g", "e" >>), PyNone }

RawUnits == { PyStr(<< "E", "A" >>), PyNone }

\* The product dicts that have every key.
RawProducts ==
  { PyDict([ product_name |-> n, brand |-> b, price |-> p, barcode |-> c,
             size_weight_volume |-> s, unit_of_measure |-> u ]) :
      n \in RawNames, b \in RawBrands, p \in RawPrices, c \in RawBarcodes,
      s \in RawSizes, u \in RawUnits }

\* A well-formed product without size.
PlainProduct ==
  PyDict([ product_name |-> PyStr(<< " ", "B", "e", "e", "f", " ", " ", "P", "i", "e", " " >>), brand |-> PyStr(<< "m", "c", "C", "A", "I", "N", " ", " ", "f", "o", "o", "d", "s" >>),
           price |-> PyStr(<< "R", " ", "4", "5", ".", "9", "9" >>), barcode |-> PyStr(Ean13),
           size_weight_volume |-> PyNone, unit_of_measure |-> PyStr(<< "E", "A" >>) ])

\* A product whose fields are all None.
AbsentProduct ==
  PyDict([ product_name |-> PyNone, brand |-> PyNone, price |-> PyNone,
           barcode |-> PyNone, size_weight_volume |-> PyNone,
           unit_of_measure |-> PyNone ])

\* The rows of the raw DataFrames: well-formed ones, one with a size, one
\* with an empty name cell (NaN), one with a brand of removed characters,
\* one of None only.
FrameProducts ==
  { PlainProduct, AbsentProduct,
    PyDict([PlainProduct.value EXCEPT !.size_weight_volume = PyStr(<< "5", "0", "0", "m", "l" >>)]),
    PyDict([PlainProduct.value EXCEPT !.product_name = PyFloat(StrNaN)]),
    PyDict([PlainProduct.value EXCEPT !.brand = PyStr(<< "!" >>)]),
    PyDict([PlainProduct.value EXCEPT !.price = PyStr(<< "f", "r", "e", "e" >>)]) }

\* The raw inputs: one product, or a DataFrame of at most MaxRecords rows.
RawFrames ==
  { << product >> : product \in RawProducts \cup { PyDict(<< >>) } }
    \cup UNION { [1..n -> FrameProducts] : n \in 0..MaxRecords }

InitRecords ==
  /\ NoMatching
  /\ NoScraping
  /\ NoCollecting
  /\ first = NoValue
  /\ raw \in RawFrames
  /\ called = ""
  /\ result = NoValue

\* ProductAfter without the copy, normalized = product: the assignments
\* land in the caller's dict.
ProductAfterAlias(product) ==
  IF Raised(normalize_product_data(product)) THEN product
  ELSE normalize_product_data(product)

\* The caller's dict after normalize_product_data(product) has returned:
\* normalized = product.copy(), and every assignment is to normalized.
ProductAfter(product) == product

\* normalize_product_data(product) of one product.
NormalizeProductData ==
  /\ pc = "normalize"
  /\ called = ""
  /\ Len(raw) = 1
  /\ called' = "normalize_product_data"
  /\ result' = normalize_product_data(raw[1])
  /\ raw' = << ProductAfter(raw[1]) >>
  /\ UNCHANGED << matchVars, webVars, first >>

\* normalize_data(df): the list of the normalized products.
NormalizeData ==
  /\ pc = "normalize"
  /\ called = ""
  /\ called' = "normalize_data"
  /\ result' = normalize_data(raw)
  /\ UNCHANGED << matchVars, webVars, first, raw >>

NextRecords ==
  \/ NormalizeProductData
  \/ NormalizeData

SpecRecords == InitRecords /\ [][NextRecords]_vars

\* ------------------------------------------------------------------------
\* The two functions that are handed the products: normalize_product_data
\* a raw record, create_comparison_table the normalized DataFrame
\* ------------------------------------------------------------------------

InitInputs == InitRecords \/ InitRerun

NextInputs ==
  \/ NormalizeProductData
  \/ CreateEmpty
  \/ FindStart
  \/ SkipBase
  \/ MatchBase
  \/ ReturnNoGroups
  \/ SaveTable

SpecInputs == InitInputs /\ [][NextInputs]_vars

\* ------------------------------------------------------------------------
\* Calls of the scorer on two names
\* ------------------------------------------------------------------------

\* Longest name handed to the scorer.
MaxNameLen == 3

\* The characters of the names: a letter in both cases and the space.
NameChars == {"a", "A", " "}

\* All names of at most MaxNameLen characters of NameChars.
ShortNames == UNION { [1..n -> NameChars] : n \in 0..MaxNameLen }

InitScore ==
  /\ NoMatching
  /\ NoScraping
  /\ NoCollecting
  /\ first = NoValue
  /\ raw \in ShortNames \X ShortNames
  /\ called = ""
  /\ result = NoValue

\* fuzz.token_sort_ratio(a, b) of the two texts.
TokenSortRatio ==
  /\ called = ""
  /\ called' = "token_sort_ratio"
  /\ result' = token_sort_ratio(raw[1], raw[2])
  /\ UNCHANGED << matchVars, webVars, first, raw >>

\* The score the matcher gives a base name and a name of another retailer:
\* the scorer on the two normalized names.
MatchScore ==
  /\ called = ""
  /\ called' = "extractOne"
  /\ result' = scorer(normalized(raw[1]), normalized(raw[2]))
  /\ UNCHANGED << matchVars, webVars, first, raw >>

NextScore ==
  \/ TokenSortRatio
  \/ MatchScore

SpecScore == InitScore /\ [][NextScore]_vars

\* ------------------------------------------------------------------------
\* Properties of the field normalizers
\* ------------------------------------------------------------------------

FieldNormalizers ==
  { "clean_text", "clean_price", "parse_size_weight_volume", "normalize_brand",
    "validate_barcode" }

\* C11: every field normalizer is total: for every raw value (None, a text,
\* a number) the call returns a value or None and raises no error.
FieldNormalizersTotal ==
  called \in FieldNormalizers => ~Raised(result)

RECURSIVE DigitsOnly(_)
\* The digits of a text in their order.
DigitsOnly(s) ==
  IF Len(s) = 0 THEN << >>
  ELSE IF IsDigit(s[1]) THEN << s[1] >> \o DigitsOnly(Tail(s))
  ELSE DigitsOnly(Tail(s))

\* C14: validate_barcode returns None or a text of digits only of length 8,
\* 12, 13 or 14; it returns the digits of the input exactly when there are
\* 8, 12, 13 or 14 of them and None otherwise; the 13-digit code is kept and
\* ABC123 is rejected.
BarcodeIsDigitsOfValidLength ==
  called = "validate_barcode" =>
    LET n == Cardinality({ i \in 1..Len(PyStrOf(raw)) : IsDigit(PyStrOf(raw)[i]) })
    IN  /\ result # PyNone =>
             /\ result.type = "str"
             /\ \A i \in 1..Len(result.value) : IsDigit(result.value[i])
             /\ Len(result.value) \in {8, 12, 13, 14}
        /\ (n \in {8, 12, 13, 14}) <=> (result = PyStr(DigitsOnly(PyStrOf(raw))))
        /\ (n \notin {8, 12, 13, 14}) <=> (result = PyNone)
        /\ raw = PyStr(Ean13) => result = PyStr(Ean13)
        /\ raw = PyStr(Abc123) => result = PyNone

\* C14 witness: a 13-digit barcode written with a dash is returned without
\* the dash.
DashedBarcodeKept ==
  /\ called = "validate_barcode"
  /\ raw.type = "str"
  /\ Len(raw.value) = 14
  /\ result.type = "str"
  /\ Len(result.value) = 13

\* The repr of a number as a float: an int has no fraction.
AsFloat(x) ==
  IF x.type = "int" THEN x.value \o << ".", "0" >> ELSE x.value

\* x and y are the same number.
SameNumber(x, y) == IsNumber(x) /\ IsNumber(y) /\ AsFloat(x) = AsFloat(y)

\* C15: clean_price returns a raw value that is a number as it is (0 and
\* numbers without two fractional digits too); for a text it returns the
\* leftmost occurrence of digits, '.' or ',', two digits, with '.' as the
\* separator, and None when the text has none.
PriceNumberOrFirstMatch ==
  called = "clean_price" =>
    /\ (IsNumber(raw) /\ raw.value # StrNaN) => SameNumber(result, raw)
    /\ raw.type = "str" =>
         LET s == raw.value
             starts == { i \in 1..Len(s) : PriceAt(s, i) }
         IN  /\ starts = {} <=> result = PyNone
             /\ starts # {} =>
                  \E i \in starts :
                    /\ \A j \in starts : i <= j
                    /\ result = FloatOf(SubSeq(s, i, SkipDigits(s, i) - 1),
                                        SubSeq(s, SkipDigits(s, i) + 1,
                                               SkipDigits(s, i) + 2))

\* C16: clean_price is idempotent through str: for a price p that
\* clean_price returned, clean_price(str(p)) is p, also when the cents of p
\* end in a zero.
PriceIdempotentThroughStr ==
  called = "clean_price(str)" => result = first.result

\* The null-ish sentinels, in lower case.
Sentinels == { << >>, << "n", "o", "n", "e" >>, << "n", "a", "n" >> }

\* C21: clean_text maps the empty text and the sentinels none and nan, in
\* any letter case, to None; every other text it returns with each run of
\* whitespace collapsed to one space and the ends trimmed; clean_text of a
\* text it returned is that text.  The first two parts are stated for the
\* texts that hold none of the characters clean_text removes.
CleanTextSentinelsAndWhitespace ==
  (called = "clean_text" /\ raw.type = "str") =>
    /\ (\A i \in 1..Len(raw.value) : KeptChar(raw.value[i])) =>
         /\ LowerText(raw.value) \in Sentinels => result = PyNone
         /\ (LowerText(raw.value) \notin Sentinels /\ Split(raw.value) # << >>) =>
              result = PyStr(NormalizeDashes(Join(Split(raw.value))))
    /\ (~Raised(result) /\ result # PyNone) => clean_text(result) = result

\* ------------------------------------------------------------------------
\* Magnitudes in base units
\* ------------------------------------------------------------------------

\* The units of the base-unit conversion and their factors.
BaseUnitFactor(unit) ==
  IF unit \in { << "k", "g" >>, << "l" >> } THEN 1000
  ELSE IF unit \in { << "g" >>, << "m", "l" >> } THEN 1
  ELSE 0

\* The decimal numeral of whole.fraction without leading and trailing zeros.
Decimal(whole, fraction) ==
  LET f == IF fraction = << >> THEN << "0" >> ELSE RStripZeros(fraction)
  IN  IF f = << "0" >> THEN LStripZeros(whole)
      ELSE LStripZeros(whole) \o << "." >> \o f

\* The decimal numeral of 1000 * whole.fraction.
Times1000(whole, fraction) ==
  LET padded == fraction \o << "0", "0", "0" >>
  IN  Decimal(whole \o SubSeq(padded, 1, 3), SubSeq(fraction, 4, Len(fraction)))

\* TRUE when a number followed by a unit of kg, g, l, ml starts at i.
BaseUnitAt(s, i) ==
  /\ SizeAt(s, i)
  /\ LET u == SkipSpaces(s, NumberEnd(s, i))
     IN  BaseUnitFactor(SubSeq(s, u, SkipLower(s, u) - 1)) # 0

\* The magnitude in grams or milliliters a size text stands for, as a
\* decimal numeral; None when the text has no number with such a unit.
BaseUnits(text) ==
  LET s == LowerText(text)
      starts == { i \in 1..Len(s) : BaseUnitAt(s, i) }
  IN  IF starts = {} THEN PyNone
      ELSE LET i == CHOOSE j \in starts : \A k \in starts : j <= k
               d == SkipDigits(s, i)
               e == NumberEnd(s, i)
               u == SkipSpaces(s, e)
               whole == SubSeq(s, i, d - 1)
               fraction == SubSeq(s, d + 1, e - 1)
           IN  PyStr(IF BaseUnitFactor(SubSeq(s, u, SkipLower(s, u) - 1)) = 1000
                     THEN Times1000(whole, fraction)
                     ELSE Decimal(whole, fraction))

\* The magnitude a result of parse_size_weight_volume holds under key
\* 'value', as a decimal numeral; None when it holds none.
Magnitude(parsed) ==
  IF parsed.value.value = PyNone THEN PyNone
  ELSE LET v == parsed.value.value.value
           d == SkipDigits(v, 1)
       IN  PyStr(Decimal(SubSeq(v, 1, d - 1), SubSeq(v, d + 1, Len(v))))

\* C17: parsing a size text gives the magnitude in base units: a number with
\* kg or l times 1000, with g or ml unchanged, in any letter case, and None
\* for a text without number and unit of kg, g, l, ml.
SizeInBaseUnits ==
  (called = "parse_size_weight_volume" /\ raw.type = "str") =>
    /\ ~Raised(result)
    /\ Magnitude(result) = BaseUnits(raw.value)

\* ------------------------------------------------------------------------
\* Properties of the record normalizer
\* ------------------------------------------------------------------------

\* A result with an exception read as None.
OrNone(x) == IF Raised(x) THEN PyNone ELSE x

\* What the normalizer of a field makes of the field's value alone.
FieldNormalized(field, v) ==
  CASE field \in {"product_name", "description", "category", "department"} ->
         OrNone(clean_text(v))
    [] field = "brand" -> OrNone(normalize_brand(OrNone(clean_text(v))))
    [] field = "price" -> OrNone(clean_price(v))
    [] field = "barcode" -> OrNone(validate_barcode(v))
    [] OTHER -> v

\* C12: normalizing a record never fails for the whole record: a malformed
\* value makes only its own field None, the other fields are normalized as
\* usual, a record of None only gives a product, and normalize_data keeps one
\* product per record.
RecordNeverFails ==
  /\ called = "normalize_product_data" =>
       /\ ~Raised(result)
       /\ \A field \in DOMAIN raw[1].value \ {"unit_of_measure"} :
            result.value[field] = FieldNormalized(field, raw[1].value[field])
  /\ called = "normalize_data" => Len(result) = Len(raw)

\* C13: normalization fabricates nothing: a field that is None in the raw
\* record is None in the product, and unit_of_measure is neither created nor
\* overwritten from another field.
NothingFabricated ==
  (called = "normalize_product_data" /\ ~Raised(result)) =>
    /\ \A field \in DOMAIN result.value :
         Get(raw[1], field) = PyNone => result.value[field] = PyNone
    /\ Get(result, "unit_of_measure") = Get(raw[1], "unit_of_measure")

\* ------------------------------------------------------------------------
\* Properties of the similarity score
\* ------------------------------------------------------------------------

\* Two scores are the same number.
SameScore(s1, s2) == s1.num * s2.den = s2.num * s1.den

\* The score is symmetric, a text scores 100 against itself, and the score
\* lies between 0 and 100.
SymmetricReflexiveInRange ==
  /\ SameScore(result, token_sort_ratio(raw[2], raw[1]))
  /\ SameScore(token_sort_ratio(raw[1], raw[1]), [num |-> 100, den |-> 1])
  /\ raw[1] = raw[2] => SameScore(result, [num |-> 100, den |-> 1])
  /\ result.den > 0
  /\ result.num >= 0
  /\ result.num <= 100 * result.den

\* C18, as claimed: the score is symmetric and reflexive and every score is
\* an integer between 0 and 100.
ScoreSymmetricReflexiveInteger ==
  called = "token_sort_ratio" =>
    /\ SymmetricReflexiveInRange
    /\ result.num % result.den = 0

\* C18, amended: the score is symmetric and reflexive and every score is a
\* number between 0 and 100, not always an integer.
ScoreSymmetricReflexive ==
  called = "token_sort_ratio" => SymmetricReflexiveInRange

\* C18 witness: two different texts have a score strictly between 0 and 100
\* that is no integer.
FractionalScore ==
  /\ called = "token_sort_ratio"
  /\ raw[1] # raw[2]
  /\ result.num > 0
  /\ result.num < 100 * result.den
  /\ result.num % result.den # 0

\* The number of times token t occurs among the tokens toks.
TokenCount(toks, t) == Cardinality({ i \in 1..Len(toks) : toks[i] = t })

\* b has the whitespace-delimited tokens of a, in any order.
TokensPermuted(a, b) ==
  /\ Len(Split(a)) = Len(Split(b))
  /\ \A i \in 1..Len(Split(a)) :
       TokenCount(Split(a), Split(a)[i]) = TokenCount(Split(b), Split(a)[i])

\* str.upper()
UpperText(s) == [i \in 1..Len(s) |-> Upper(s[i])]

\* A name in the other letter cases and with whitespace at its ends.
Variants(name) ==
  { LowerText(name), UpperText(name), << " " >> \o name, name \o << " " >>,
    << " " >> \o UpperText(name) \o << " " >> }

EmissionOrder(g) == CHOOSE k \in 1..Len(matched_groups) : matched_groups[k] = g

\* C20: the rows of the saved table are ordered by product_name (by code
\* point, upper case before lower case), rows of equal product_name keep
\* the order in which the matcher emitted their groups, and the table has
\* exactly one row per emitted group.  Stated for the inputs whose products
\* all have a name and a price.
TableSortedStable ==
  (pc = "saved" /\ AllNamed /\ AllPriced) =>
    /\ Len(comparison_df) = Len(matched_groups)
    /\ Range(comparison_df) = Range(matched_groups)
    /\ \A i, j \in 1..Len(comparison_df) :
         i < j =>
           /\ ~TextLess(comparison_df[j].product_name, comparison_df[i].product_name)
           /\ comparison_df[i].product_name = comparison_df[j].product_name =>
                EmissionOrder(comparison_df[i]) < EmissionOrder(comparison_df[j])

\* ------------------------------------------------------------------------
\* Seeds of the groups
\* ------------------------------------------------------------------------

\* The positions of the reference products whose name, brand, size and
\* entries are those of group g.
SeedsOf(g) ==
  { i \in 1..Len(df) :
      /\ CellEq(df[i].retailer, retailers[1])
      /\ g.product_name = df[i].product_name
      /\ g.brand = df[i].brand
      /\ g.size = df[i].size_weight_volume
      /\ g.cols[retailers[1]] = Triple(df[i]) }

\* No named reference product reaches the threshold with a product of
\* another catalog.
NoReferenceMatch ==
  \A i, j \in 1..Len(df) :
    (/\ CellEq(df[i].retailer, retailers[1])
     /\ Truthy(df[i].product_name)
     /\ df[j].retailer \in OtherRetailers)
      => ~ScoreAtLeast(scorer(normalized(df[i].product_name), MatchText(df[j])),
                       similarity_threshold)

\* C22: every emitted group is seeded by exactly one product of the
\* reference catalog: its product_name, brand, size and reference entries
\* are those of that product; the entries filed under another catalog are
\* those of a product of that catalog; the rows of the table are emitted
\* groups; and when no reference product matches a product of another
\* catalog no group is emitted, whatever the other catalogs' products score
\* against each other.
SeededByOneReferenceProduct ==
  Started =>
    /\ \A k \in 1..Len(matched_groups) :
         /\ retailers[1] \in DOMAIN matched_groups[k].cols
         /\ Cardinality(SeedsOf(matched_groups[k])) = 1
         /\ \A r \in Attached(matched_groups[k]) :
              /\ r \in OtherRetailers
              /\ \E i \in 1..Len(df) :
                   df[i].retailer = r /\ matched_groups[k].cols[r] = Triple(df[i])
    /\ Range(comparison_df) \subseteq Range(matched_groups)
    /\ NoReferenceMatch => matched_groups = << >>

\* C22 witness: a group seeded by a reference product, with the entries of
\* a product of another catalog, is a row of the saved table.
SeededGroupSaved ==
  /\ pc = "saved"
  /\ \E k \in 1..Len(comparison_df) :
       /\ Cardinality(SeedsOf(comparison_df[k])) = 1
       /\ Attached(comparison_df[k]) # {}

\* Two named products of two non-reference catalogs have the same match
\* text, no reference product matches, and the call has ended without a row.
UnseededPairDropped ==
  /\ pc = "returned"
  /\ Started
  /\ NoReferenceMatch
  /\ matched_groups = << >>
  /\ \E i, j \in 1..Len(df) :
       /\ df[i].retailer \in OtherRetailers
       /\ df[j].retailer \in OtherRetailers
       /\ df[i].retailer # df[j].retailer
       /\ Truthy(df[i].product_name)
       /\ MatchText(df[i]) = MatchText(df[j])

\* ------------------------------------------------------------------------
\* Inputs are left as they were
\* ------------------------------------------------------------------------

MaxLimit == 2

\* Number of listing pages of the category; has_next_page finds no next
\* button on the last one.
MaxSitePages == 3

\* Most product links of one listing page.
MaxUrls == 2

\* No normalizer call is under way.
NoCall ==
  /\ first = NoValue
  /\ raw = NoValue
  /\ called = ""
  /\ result = NoValue

\* run(max_pages, max_items) on a new scraper.
InitScraper ==
  /\ NoMatching
  /\ NoCall
  /\ NoCollecting
  /\ spc = "start"
  /\ max_pages \in 0..MaxLimit
  /\ max_items \in 0..MaxLimit
  /\ browser = "none"
  /\ close_calls = 0
  /\ page = 0
  /\ page_urls = << >>
  /\ current_page = 0
  /\ next_page = ""
  /\ page_num = 0
  /\ product_urls = << >>
  /\ all_products = << >>
  /\ products = << >>
  /\ run_error = ""
  /\ visited_at = {}

\* The variables no step of the scraper changes.
restVars == << df, similarity_threshold, pc, retailers, cursor, group, matched_groups,
               matched_base_indices, comparison_df, error, run, first, raw, called,
               result, collectVars, max_pages, max_items >>

\* start_browser returns.
StartBrowser ==
  /\ spc = "start"
  /\ browser' = "open"
  /\ spc' = "navigate"
  /\ UNCHANGED << restVars, close_calls, page, page_urls, current_page, next_page,
                  page_num, product_urls, all_products, products, run_error,
                  visited_at >>

\* start_browser logs and re-raises; the browser may have been launched
\* before the failing call.  run re-raises and goes to its finally.
StartBrowserRaise ==
  /\ spc = "start"
  /\ browser' \in {"none", "open"}
  /\ run_error' = "start_browser"
  /\ spc' = "finally"
  /\ UNCHANGED << restVars, close_calls, page, page_urls, current_page, next_page,
                  page_num, product_urls, all_products, products, visited_at >>

\* scrape_category: safe_navigate(category_url) is False, the empty list
\* is returned.
NavigateFail ==
  /\ spc = "navigate"
  /\ products' = all_products
  /\ spc' = "finally"
  /\ UNCHANGED << restVars, browser, close_calls, page, page_urls, current_page,
                  next_page, page_num, product_urls, all_products, run_error,
                  visited_at >>

\* scrape_category: safe_navigate(category_url) is True, handle_pagination
\* starts on the first listing page.
Navigate ==
  /\ spc = "navigate"
  /\ page' = 1
  /\ page_urls' = << >>
  /\ current_page' = 1
  /\ spc' = "paginate"
  /\ UNCHANGED << restVars, browser, close_calls, next_page, page_num, product_urls,
                  all_products, products, run_error, visited_at >>

\* PageLimitReached without the limit test: the loop ends with the site.
PageLimitIgnored(limit, current) == FALSE

\* if max_pages and current_page > max_pages
PageLimitReached(limit, current) == limit # 0 /\ current > limit

\* handle_pagination: the limit test breaks the loop.
PaginateLimit ==
  /\ spc = "paginate"
  /\ PageLimitReached(max_pages, current_page)
  /\ page_num' = 1
  /\ spc' = "pages"
  /\ UNCHANGED << restVars, browser, close_calls, page, page_urls, current_page,
                  next_page, product_urls, all_products, products, run_error,
                  visited_at >>

\* handle_pagination: self.page.url raises (the page has gone); the
\* exception leaves handle_pagination and scrape_category, run re-raises.
PaginateRaise ==
  /\ spc = "paginate"
  /\ ~PageLimitReached(max_pages, current_page)
  /\ run_error' = "scrape_category"
  /\ spc' = "finally"
  /\ UNCHANGED << restVars, browser, close_calls, page, page_urls, current_page,
                  next_page, page_num, product_urls, all_products, products,
                  visited_at >>

\* handle_pagination, one pass that breaks: the URL is collected, then
\* has_next_page is False (always so on the last page) or go_to_next_page
\* is False.
PaginateLast ==
  /\ spc = "paginate"
  /\ ~PageLimitReached(max_pages, current_page)
  /\ page_urls' = Append(page_urls, page)
  /\ next_page' \in {"none", "failed"}
  /\ page_num' = 1
  /\ spc' = "pages"
  /\ UNCHANGED << restVars, browser, close_calls, page, current_page, product_urls,
                  all_products, products, run_error, visited_at >>

\* handle_pagination, one full pass: the URL is collected, has_next_page
\* and go_to_next_page are True, the browser is on the next page.
PaginateNext ==
  /\ spc = "paginate"
  /\ ~PageLimitReached(max_pages, current_page)
  /\ page < MaxSitePages
  /\ page_urls' = Append(page_urls, page)
  /\ next_page' = "gone"
  /\ page' = page + 1
  /\ current_page' = current_page + 1
  /\ UNCHANGED << restVars, spc, browser, close_calls, page_num, product_urls,
                  all_products, products, run_error, visited_at >>

\* scrape_category, a page whose safe_navigate is False: continue.
PageSkip ==
  /\ spc = "pages"
  /\ page_num <= Len(page_urls)
  /\ page_urls[page_num] # page
  /\ page_num' = page_num + 1
  /\ UNCHANGED << restVars, spc, browser, close_calls, page, page_urls, current_page,
                  next_page, product_urls, all_products, products, run_error,
                  visited_at >>

\* list(set(product_urls)) of extract_product_urls on listing page p: n
\* links, none when the extraction failed.
ProductUrls(p, n) == [k \in 1..n |-> << p, k >>]

\* scrape_category, a page the browser is on or navigates to: its product
\* URLs are extracted.
PageOpen ==
  /\ spc = "pages"
  /\ page_num <= Len(page_urls)
  /\ page' = page_urls[page_num]
  /\ \E n \in 0..MaxUrls : product_urls' = ProductUrls(page_urls[page_num], n)
  /\ spc' = "products"
  /\ UNCHANGED << restVars, browser, close_calls, page_urls, current_page, next_page,
                  page_num, all_products, products, run_error, visited_at >>

\* scrape_category: the loop over page_urls is over, all_products is
\* returned.
PagesDone ==
  /\ spc = "pages"
  /\ page_num > Len(page_urls)
  /\ products' = all_products
  /\ spc' = "finally"
  /\ UNCHANGED << restVars, browser, close_calls, page, page_urls, current_page,
                  next_page, page_num, product_urls, all_products, run_error,
                  visited_at >>

\* ItemLimitReached with > in place of >=.
ItemLimitExceeded(limit, count) == limit # 0 /\ count > limit

\* if max_items and len(all_products) >= max_items
ItemLimitReached(limit, count) == limit # 0 /\ count >= limit

\* scrape_category: the limit test before a product returns all_products.
ItemLimit ==
  /\ spc = "products"
  /\ product_urls # << >>
  /\ ItemLimitReached(max_items, Len(all_products))
  /\ products' = all_products
  /\ spc' = "finally"
  /\ UNCHANGED << restVars, browser, close_calls, page, page_urls, current_page,
                  next_page, page_num, product_urls, all_products, run_error,
                  visited_at >>

\* scrape_category, one product: extract_product_details visits the product
\* page and returns the product, or returns None, or raises (caught).
Extract ==
  /\ spc = "products"
  /\ product_urls # << >>
  /\ ~ItemLimitReached(max_items, Len(all_products))
  /\ visited_at' = visited_at \cup {Len(all_products)}
  /\ \E product_data \in {"product", "None", "raise"} :
       all_products' = IF product_data = "product"
                       THEN Append(all_products, Head(product_urls))
                       ELSE all_products
  /\ product_urls' = Tail(product_urls)
  /\ UNCHANGED << restVars, spc, browser, close_calls, page, page_urls, current_page,
                  next_page, page_num, products, run_error >>

\* scrape_category: the products of the page are done, next page.
ProductsDone ==
  /\ spc = "products"
  /\ product_urls = << >>
  /\ page_num' = page_num + 1
  /\ spc' = "pages"
  /\ UNCHANGED << restVars, browser, close_calls, page, page_urls, current_page,
                  next_page, product_urls, all_products, products, run_error,
                  visited_at >>

\* ErrorAfterClose without the try of close_browser: its exception leaves
\* the finally of run in place of what run was about to do.
ErrorAfterUncaughtClose(pending, close_failed) ==
  IF close_failed THEN "close_browser" ELSE pending

\* What run re-raises after close_browser: close_browser catches and logs
\* its own exception.
ErrorAfterClose(pending, close_failed) == pending

\* The finally of run, close_browser closes page, browser and playwright.
CloseBrowser ==
  /\ spc = "finally"
  /\ close_calls' = close_calls + 1
  /\ browser' = IF browser = "open" THEN "closed" ELSE browser
  /\ run_error' = ErrorAfterClose(run_error, FALSE)
  /\ spc' = IF run_error' = "" THEN "returned" ELSE "raised"
  /\ UNCHANGED << restVars, page, page_urls, current_page, next_page, page_num,
                  product_urls, all_products, products, visited_at >>

\* The finally of run, a close raises inside close_browser: the browser
\* may stay open, the exception is logged.
CloseBrowserError ==
  /\ spc = "finally"
  /\ browser = "open"
  /\ close_calls' = close_calls + 1
  /\ browser' \in {"open", "closed"}
  /\ run_error' = ErrorAfterClose(run_error, TRUE)
  /\ spc' = IF run_error' = "" THEN "returned" ELSE "raised"
  /\ UNCHANGED << restVars, page, page_urls, current_page, next_page, page_num,
                  product_urls, all_products, products, visited_at >>

NextScraper ==
  \/ StartBrowser
  \/ StartBrowserRaise
  \/ NavigateFail
  \/ Navigate
  \/ PaginateLimit
  \/ PaginateRaise
  \/ PaginateLast
  \/ PaginateNext
  \/ PageSkip
  \/ PageOpen
  \/ PagesDone
  \/ ItemLimit
  \/ Extract
  \/ ProductsDone
  \/ CloseBrowser
  \/ CloseBrowserError

SpecScraper == InitScraper /\ [][NextScraper]_vars

\* ------------------------------------------------------------------------
\* Properties of the scraper
\* ------------------------------------------------------------------------

\* C24: with a positive max_items, all_products and the list run is handed
\* never hold more than max_items products, whatever the pages, the links
\* and the failures of single products; and every visit of a product page
\* was made with fewer than max_items products collected.
RespectsMaxItems ==
  (spc # "idle" /\ max_items > 0) =>
    /\ Len(all_products) <= max_items
    /\ Len(products) <= max_items
    /\ \A count \in visited_at : count < max_items

\* C24 witness: run has returned max_items products and a product link of
\* the listing page was left unvisited.
StoppedAtMaxItems ==
  /\ spc = "returned"
  /\ max_items > 0
  /\ Len(products) = max_items
  /\ product_urls # << >>

\* C25: with a positive max_pages, handle_pagination makes at most
\* max_pages passes and collects at most max_pages URLs, also when every
\* page has a next one; it has left its loop whenever has_next_page or
\* go_to_next_page was False; and the k-th URL collected is that of the
\* k-th page visited.
PaginationBounded ==
  spc # "idle" =>
    /\ max_pages > 0 =>
         /\ Len(page_urls) <= max_pages
         /\ current_page <= max_pages + 1
    /\ next_page \in {"none", "failed"} => spc # "paginate"
    /\ \A k \in 1..Len(page_urls) : page_urls[k] = k

\* C25 witness: handle_pagination has returned max_pages URLs while the
\* site had gone on to a further page.
StoppedAtMaxPages ==
  /\ spc = "pages"
  /\ max_pages > 0
  /\ Len(page_urls) = max_pages
  /\ next_page = "gone"
  /\ page = max_pages + 1

\* C26: close_browser is called once, in the finally of run, before run
\* returns or re-raises; run returns the products of scrape_category when
\* nothing raised before the finally, and re-raises the exception of
\* start_browser or scrape_category otherwise, whether or not a close failed
\* inside close_browser.
BrowserClosedOnce ==
  spc # "idle" =>
    /\ close_calls <= 1
    /\ spc \in {"returned", "raised"} <=> close_calls = 1
    /\ spc = "returned" => run_error = "" /\ products = all_products
    /\ spc = "raised" => run_error \in {"start_browser", "scrape_category"}
    /\ run_error = "" => spc # "raised"

\* C26 witness: scrape_category raised, a close failed inside close_browser
\* and left the browser open, and run has re-raised the scrape's exception.
ScrapeErrorKeptOverCloseError ==
  /\ spc = "raised"
  /\ run_error = "scrape_category"
  /\ close_calls = 1
  /\ browser = "open"

\* ------------------------------------------------------------------------
\* run_full_pipeline, DataCollector.collect_all and collect_from_retailer
\* ------------------------------------------------------------------------

\* The keys of RETAILER_CONFIGS, in the order of the dict.
RETAILER_CONFIGS == << "Shoprite", "Checkers", "PicknPay", "Makro" >>

\* The retailers collect_all does not skip: if not retailer_name in
\* ['Checkers']: continue.
Tested == { "Checkers" }

\* run_full_pipeline(headless, max_pages, max_items): the collector is
\* constructed and collect_all starts.
InitPipeline ==
  /\ NoMatching
  /\ NoCall
  /\ ScraperIdle
  /\ max_pages \in 0..MaxLimit
  /\ max_items \in 0..MaxLimit
  /\ cpc = "collect"
  /\ headless \in BOOLEAN
  /\ retailer_pos = 1
  /\ collected = << >>
  /\ results = << >>
  /\ raw_files = {}
  /\ processing = ""
  /\ pipeline = ""

\* The variables no step of the pipeline changes.
idleVars == << df, similarity_threshold, pc, retailers, cursor, group, matched_groups,
               matched_base_indices, comparison_df, error, run, first, raw, called,
               result, scrapeVars, headless >>

\* The retailer the loop of collect_all is at.
retailer_name == RETAILER_CONFIGS[retailer_pos]

\* The numbers of products scraper.run can hand back: the scraper respects
\* a positive max_items.
ProductCounts == 0..(IF max_items > 0 THEN max_items ELSE MaxLimit)

\* One call of collect_from_retailer by collect_all: the call is logged with
\* what the scraper did, the number of products it handed back, what the
\* save did and what the call returned, and results[retailer_name] = success.
Collect(scraper_run, n, save, success) ==
  /\ collected' = Append(collected,
       [ retailer |-> retailer_name, scraper |-> scraper_run, products |-> n,
         save |-> save, returned |-> success ])
  /\ results' = Append(results, << retailer_name, success >>)
  /\ retailer_pos' = retailer_pos + 1

\* collect_all, a retailer that is skipped: continue.
SkipRetailer ==
  /\ cpc = "collect"
  /\ retailer_pos <= Len(RETAILER_CONFIGS)
  /\ retailer_name \notin Tested
  /\ retailer_pos' = retailer_pos + 1
  /\ UNCHANGED << idleVars, cpc, collected, results, raw_files, processing, pipeline >>

\* collect_from_retailer: the scraper (its constructor or run) raises; the
\* except branch logs and returns False.
CollectScraperRaised ==
  /\ cpc = "collect"
  /\ retailer_pos <= Len(RETAILER_CONFIGS)
  /\ retailer_name \in Tested
  /\ Collect("raised", 0, "", FALSE)
  /\ UNCHANGED << idleVars, cpc, raw_files, processing, pipeline >>

\* collect_from_retailer: run returns no product; False.
CollectNoProducts ==
  /\ cpc = "collect"
  /\ retailer_pos <= Len(RETAILER_CONFIGS)
  /\ retailer_name \in Tested
  /\ Collect("returned", 0, "", FALSE)
  /\ UNCHANGED << idleVars, cpc, raw_files, processing, pipeline >>

\* collect_from_retailer: run returns products and to_excel writes the raw
\* file; True.
CollectSaved ==
  /\ cpc = "collect"
  /\ retailer_pos <= Len(RETAILER_CONFIGS)
  /\ retailer_name \in Tested
  /\ \E n \in ProductCounts \ {0} : Collect("returned", n, "saved", TRUE)
  /\ raw_files' = raw_files \cup {retailer_name}
  /\ UNCHANGED << idleVars, cpc, processing, pipeline >>

\* collect_from_retailer: run returns products and the save raises; the
\* except branch logs and returns False.  The DataFrame or the opening of
\* the file may raise, and no file is made; to_excel may raise after it has
\* opened filepath for writing, which leaves the file with what was written.
CollectSaveFailed ==
  /\ cpc = "collect"
  /\ retailer_pos <= Len(RETAILER_CONFIGS)
  /\ retailer_name \in Tested
  /\ \E n \in ProductCounts \ {0} : Collect("returned", n, "failed", FALSE)
  /\ raw_files' \in { raw_files, raw_files \cup {retailer_name} }
  /\ UNCHANGED << idleVars, cpc, processing, pipeline >>

\* collect_all: the loop is over, the summary is printed, results returned.
CollectAllReturn ==
  /\ cpc = "collect"
  /\ retailer_pos > Len(RETAILER_CONFIGS)
  /\ cpc' = "collected"
  /\ UNCHANGED << idleVars, retailer_pos, collected, results, raw_files, processing,
                  pipeline >>

\* AnySucceeded with the test on the retailers attempted.
AnyAttempted(rs) == rs # << >>

\* any(results.values())
AnySucceeded(rs) == \E k \in 1..Len(rs) : rs[k][2]

\* run_full_pipeline: if not any(results.values()): return False.
PipelineNoData ==
  /\ cpc = "collected"
  /\ ~AnySucceeded(results)
  /\ pipeline' = "False"
  /\ cpc' = "done"
  /\ UNCHANGED << idleVars, retailer_pos, collected, results, raw_files, processing >>

\* run_full_pipeline: the processor is constructed and process_all called.
ProcessStart ==
  /\ cpc = "collected"
  /\ AnySucceeded(results)
  /\ processing' = "running"
  /\ cpc' = "process"
  /\ UNCHANGED << idleVars, retailer_pos, collected, results, raw_files, pipeline >>

\* run_full_pipeline: process_all returns success; False is returned when
\* it is falsy, True otherwise.
ProcessReturn ==
  /\ cpc = "process"
  /\ \E success \in BOOLEAN :
       /\ processing' = IF success THEN "True" ELSE "False"
       /\ pipeline' = IF ~success THEN "False" ELSE "True"
  /\ cpc' = "done"
  /\ UNCHANGED << idleVars, retailer_pos, collected, results, raw_files >>

\* run_full_pipeline: process_all raises, and so does the pipeline.
ProcessRaise ==
  /\ cpc = "process"
  /\ processing' = "raised"
  /\ cpc' = "raised"
  /\ UNCHANGED << idleVars, retailer_pos, collected, results, raw_files, pipeline >>

NextPipeline ==
  \/ SkipRetailer
  \/ CollectScraperRaised
  \/ CollectNoProducts
  \/ CollectSaved
  \/ CollectSaveFailed
  \/ CollectAllReturn
  \/ PipelineNoData
  \/ ProcessStart
  \/ ProcessReturn
  \/ ProcessRaise

SpecPipeline == InitPipeline /\ [][NextPipeline]_vars

\* ------------------------------------------------------------------------
\* Properties of the pipeline and the collector
\* ------------------------------------------------------------------------

\* Some call of collect_from_retailer has returned True.
SomeCollected == \E k \in 1..Len(collected) : collected[k].returned

\* C27: process_all is called only after collect_all has gone through
\* RETAILER_CONFIGS and returned, and only when some collect_from_retailer
\* returned True; a pipeline that has ended without such a call has not
\* called process_all and returned False; and the pipeline returns True
\* only when process_all returned True.
ProcessingAfterCollection ==
  cpc # "idle" =>
    /\ processing # "" =>
         /\ cpc \in {"process", "done", "raised"}
         /\ retailer_pos > Len(RETAILER_CONFIGS)
         /\ SomeCollected
    /\ (cpc = "done" /\ ~SomeCollected) => processing = "" /\ pipeline = "False"
    /\ pipeline = "True" => processing = "True"
    /\ processing = "False" => pipeline = "False"

\* C27 witness: a retailer was collected, process_all returned True and so
\* did the pipeline.
PipelineSucceeded ==
  /\ cpc = "done"
  /\ SomeCollected
  /\ processing = "True"
  /\ pipeline = "True"

\* C28: when collect_all returns, every retailer of RETAILER_CONFIGS has
\* been handed to collect_from_retailer exactly once, in the order of the
\* configuration, and results has one boolean for each of them.
EveryRetailerAttempted ==
  cpc \in {"collected", "process", "done", "raised"} =>
    /\ [k \in 1..Len(collected) |-> collected[k].retailer] = RETAILER_CONFIGS
    /\ [k \in 1..Len(results) |-> results[k][1]] = RETAILER_CONFIGS
    /\ \A k \in 1..Len(results) : results[k][2] \in BOOLEAN

\* C29: every call of collect_from_retailer returns a boolean: True exactly
\* when the scraper handed back at least one product and the raw file was
\* written, and False, with no raw file of the retailer made, when the
\* scraper raised, handed back no product, or the save failed.
CollectReturnsWhetherSaved ==
  \A k \in 1..Len(collected) :
    /\ collected[k].returned \in BOOLEAN
    /\ collected[k].returned <=>
         /\ collected[k].scraper = "returned"
         /\ collected[k].products >= 1
         /\ collected[k].save = "saved"
    /\ collected[k].returned <=> collected[k].retailer \in raw_files

\* ------------------------------------------------------------------------
\* DataProcessor.process_all
\* ------------------------------------------------------------------------

\* Most rows of the raw files load_raw_files combines.
MaxLoaded == 3

PyBool(b) == [type |-> "bool", value |-> b]

\* A size text that parse_size_weight_volume gives a unit to.
Size500ml == << "5", "0", "0", "m", "l" >>

\* The i-th row of the combined raw DataFrame, product.to_dict(): the
\* cells of the raw file and the retailer column load_raw_files adds.
LoadedProduct(r, n, s, i) ==
  PyDict([ retailer |-> PyStr(r), product_name |-> PyStr(n), brand |-> PyNone,
           size_weight_volume |-> s, price |-> PyStr(<< "1", "0", ".", "0", "0" >>),
           price_per_unit |-> PyNone, product_url |-> PyStr(UrlOf(i)) ])

\* The combined raw DataFrames of n rows of two retailers.
LoadedFrames(n) ==
  { [i \in 1..n |-> LoadedProduct(rs[i], ns[i], ss[i], i)] :
      rs \in [1..n -> RerunRetailers], ns \in [1..n -> ProductNames \cup {<< " " >>}],
      ss \in [1..n -> {PyNone, PyStr(Size500ml)}] }

\* A cell of pd.DataFrame(normalized_products): the text or the number of
\* the value, None for None.
Cell(v) == IF v = PyNone THEN None ELSE v.value

\* The row of a normalized product.
Row(dict) ==
  [ retailer |-> Cell(dict.value.retailer),
    product_name |-> Cell(dict.value.product_name),
    brand |-> Cell(dict.value.brand),
    size_weight_volume |-> Cell(dict.value.size_weight_volume),
    price |-> Cell(dict.value.price),
    price_per_unit |-> Cell(dict.value.price_per_unit),
    product_url |-> Cell(dict.value.product_url) ]

\* normalized_df = self.normalize_data(df)
normalized_df(frame) ==
  LET normalized_products == normalize_data(frame)
  IN  DataFrame([k \in 1..Len(normalized_products) |-> Row(normalized_products[k])])

\* process_all on a new DataProcessor() once load_raw_files has returned
\* the combined DataFrame.
InitProcess ==
  /\ NoScraping
  /\ NoCollecting
  /\ df = << >>
  /\ similarity_threshold = DefaultThreshold
  /\ pc = "load"
  /\ retailers = << >>
  /\ cursor = 0
  /\ group = NoValue
  /\ matched_groups = << >>
  /\ matched_base_indices = {}
  /\ comparison_df = << >>
  /\ error = NoValue
  /\ run = 1
  /\ first = NoValue
  /\ \E n \in 0..MaxLoaded : raw \in LoadedFrames(n)
  /\ called = "process_all"
  /\ result = NoValue

\* if df.empty: return False
LoadedEmpty ==
  /\ pc = "load"
  /\ raw = << >>
  /\ result' = PyBool(FALSE)
  /\ pc' = "done"
  /\ UNCHANGED << df, similarity_threshold, retailers, cursor, group, matched_groups,
                  matched_base_indices, comparison_df, error, run, first, raw, called,
                  webVars >>

\* normalized_df = self.normalize_data(df); if normalized_df.empty: return
\* False; otherwise self.create_comparison_table(normalized_df) is called.
Normalize ==
  /\ pc = "load"
  /\ raw # << >>
  /\ df' = normalized_df(raw)
  /\ pc' = IF df' = << >> THEN "done" ELSE "create"
  /\ result' = IF df' = << >> THEN PyBool(FALSE) ELSE result
  /\ UNCHANGED << similarity_threshold, retailers, cursor, group, matched_groups,
                  matched_base_indices, comparison_df, error, run, first, raw, called,
                  webVars >>

\* create_comparison_table has returned, with or without a table: process_all
\* logs the output path and returns True.
ProcessAllReturn ==
  /\ pc \in {"saved", "returned"}
  /\ called = "process_all"
  /\ result' = PyBool(TRUE)
  /\ pc' = "done"
  /\ UNCHANGED << df, similarity_threshold, retailers, cursor, group, matched_groups,
                  matched_base_indices, comparison_df, error, run, first, raw, called,
                  webVars >>

NextProcess ==
  \/ LoadedEmpty
  \/ Normalize
  \/ FindStart
  \/ SkipBase
  \/ MatchBase
  \/ ReturnNoGroups
  \/ SaveTable
  \/ ProcessAllReturn

SpecProcess == InitProcess /\ [][NextProcess]_vars

\* C30: process_all returns True only when the call has built and saved a
\* comparison table; when no raw data was loaded, when no record survived
\* normalization, or when the matcher found no group, it returns False and
\* has saved no table.
TrueOnlyWithTable ==
  (called = "process_all" /\ pc = "done") =>
    /\ result = PyBool(TRUE) => comparison_df # << >>
    /\ (raw = << >> \/ df = << >> \/ matched_groups = << >>) =>
         result = PyBool(FALSE) /\ comparison_df = << >>

====
